---- MODULE Spec2Model ----
(***************************************************************************)
(* Overnight-optimization job queue, worker and cancel handler of          *)
(* src/dspy-server.py.                                                     *)
(*                                                                         *)
(* One background worker thread (job_processor) and the Flask request      *)
(* threads (overnight_optimize_endpoint, cancel_job_endpoint) share the    *)
(* in-memory job_queue (under job_queue_lock) and the job files            *)
(* data/jobs/<job_id>.json (no lock).  Every file read and every file      *)
(* write is one step; update_job_status is a read step followed by a write *)
(* step, so another thread can run between the two.                        *)
(*                                                                         *)
(* Further specifications over the same state: SpecRestart (the process    *)
(* ends and starts again), SpecProc (start_job_processor,                  *)
(* stop_job_processor and the threads they create), SpecIo (the bytes of a *)
(* file while it is written and read), SpecGepa (the candidate store and   *)
(* apply_candidate of src/llm/optim_gepa.py), SpecVersions and SpecBackups *)
(* (prompt versions, rollback and backups), SpecJobSweep, SpecSweep,       *)
(* SpecCleanupProc and SpecTempSweep (cleanup_expired_data and its         *)
(* callers), SpecHistory (save_gepa_history_entry), SpecWatcher            *)
(* (src/ingest/watcher.py), SpecRounds (src/ingest/rounds_backend.py),     *)
(* SpecCollapse (collapse_repetitions of src/whisper-server.py) and        *)
(* SpecIds (_generate_candidate_id).                                       *)
(***************************************************************************)
EXTENDS Integers, Sequences, FiniteSets, TLC

(* ---- bounds of the model ---- *)
MaxJobs == 2
MaxTasks == 2
NumHandlers == 1
MaxThreads == 3
MaxWrites == 2
MaxLen == 2
MaxPreviews == 2
MaxTicks == 2
MaxApplies == 1
MaxRuns == 2
MaxIterations == 1
MaxCleanups == 1
MaxBackupFiles == 3
MaxRequests == 2
MaxSweepers == 2
MaxSaves == 2
MaxInbox == 2
MaxRepeats == 9
MaxPatients == 2
MaxPhrase == 3
MaxSweptJobs == 1
MaxSweptPreviews == 1

\* job ids are clock seconds; at most one new second per enqueue is used
JobIds == 1..MaxJobs
Handlers == 1..NumHandlers

\* the worker threads that start_job_processor creates over time
ThreadIds == 1..MaxThreads

(* ---- values ---- *)
NoProgress == -1

PhaseNone == ""
PhaseInit == "Initializing overnight optimization"
PhaseAsr == "Processing ASR corrections from daily usage"
PhaseAsrDone == "ASR corrections processed"
PhaseGepaStart == "Starting GEPA optimization"
PhaseTask == "Optimizing agent"
PhaseGepaDone == "GEPA optimization completed"
PhaseCompleted == "Overnight optimization completed"
PhaseFailed == "Job failed"
PhaseCancelled == "Job cancelled by user"

SummaryNone == ""
SummaryCancelled == "Job was cancelled before completion"
SummaryFailed == "Overnight job failed: exception message"
SummaryProcessed == "Processed GEPA tasks, ASR glossary terms, ASR rules"

\* 'cancel' in summary.lower(), over the summaries the program writes
ContainsCancel(summary) ==
    summary \in {SummaryCancelled}

NoResults == [present |-> FALSE, asr_preview |-> FALSE, candidates |-> << >>]

NoFile ==
    [exists |-> FALSE, status |-> "UNKNOWN", progress |-> NoProgress,
     current_phase |-> PhaseNone, summary |-> SummaryNone,
     completed_at |-> FALSE, results |-> NoResults]

NoJob == [job_id |-> 0, ntasks |-> 0, seq |-> 0]

\* outcome of one phase-2 unit of work
TaskOutcomes == {"ok", "error", "raise", "skipped"}

VARIABLES
    clock,       \* int(now_melbourne().timestamp()) as last read for a job id
    files,       \* data/jobs/<job_id>.json
    job_queue,   \* the in-memory queue
    worker,      \* the job_processor thread: position and locals
    handler,     \* the request threads: position and locals
    nenq,        \* number of jobs appended to the queue so far
    started,     \* queue entries in the order the worker started them
    accepted     \* per job id: status read by the cancel accepted since enqueue

\* the life cycle of the worker thread (lines 105-106 and 369-407)
VARIABLES
    job_processor_running,  \* the module-level flag
    job_processor_thread,   \* the Thread object last started, 0 for None
    threads,                \* every thread started so far: position and job
    caller                  \* the thread that calls start/stop_job_processor

\* the bytes of one file of each kind on disk (C16)
VARIABLES
    disk,     \* per path: the content a reader opening the path gets
    temp,     \* per path: the mkstemp file of an atomic_write_json in progress
    writer,   \* per path: position of the thread writing it, and its data
    seen      \* per path: what the last reader obtained

\* the candidate store and the prompt versions of src/llm/optim_gepa.py
VARIABLES
    timestamp,        \* datetime.now().timestamp(), in seconds
    candidates,       \* data/gepa/candidates: one record per file
    prompt_versions,  \* llm/prompts/<agent>/v<iteration>_<date>.json
    current_md,       \* llm/prompts/<agent>/current.md
    preview_out,      \* what the last preview reported
    apply_out,        \* what the last apply_candidate returned
    optimization_history,  \* data/gepa/optimization_history.json
    nprev,            \* previews run so far
    ticks             \* clock steps taken so far

\* run_optimization, rollback, backup and the retention sweeper of
\* src/llm/optim_gepa.py
VARIABLES
    optimizer,    \* the run_optimization call in progress: position and locals
    version_out,  \* what the last rollback, backup or load returned
    cleanup_out,  \* what the last cleanup_expired_data returned
    nruns,        \* run_optimization calls started so far
    ncleanups     \* cleanup_expired_data calls made so far

\* the cleanup_processor thread and the requests in cleanup_endpoint
\* (src/dspy-server.py lines 411-498 and 2359-2432)
VARIABLES
    cleanup_processor_running,  \* the module-level flag
    cleanup_processor_thread,   \* the Thread object last started, 0 for None
    sweepers,                   \* every cleanup thread started so far: position
    cleanup_caller,             \* the thread that calls start/stop_cleanup_processor
    sweep_requests              \* the request threads in cleanup_endpoint

\* the request threads inside save_gepa_history_entry
VARIABLES
    savers,    \* per request thread: position and the list it loaded
    recorded   \* the entries in the order they were written

\* the ingest Watcher of src/mac_daemon/watcher.py
VARIABLES
    watcher_queue,  \* Watcher._queue
    jobs_root,      \* jobs_root/<job.id>.json as save_job wrote it last
    watcher_out     \* what the last _process_next_job did

\* RoundsBackend of src/mac_daemon/rounds_backend.py
VARIABLES
    rounds_lock,      \* _ROUNDS_LOCK: the thread that holds it, 0 for none
    rounds_patients,  \* the list in rounds_patients.json
    rounds_threads    \* the threads in quick_add_patient: position and locals

\* collapse_repetitions of src/whisper-server.py and the candidate triples
\* given to _generate_candidate_id
VARIABLES
    text,       \* the transcribed text: a phrase and the times it is repeated
    collapsed,  \* what collapse_repetitions returned for it
    triples     \* two (agent_type, original_prompt, optimized_prompt)

jobvars == <<clock, files, job_queue, worker, handler, nenq, started, accepted>>

procvars == <<job_processor_running, job_processor_thread, threads, caller>>

\* what the job queue, its worker and the request handlers leave alone
iovars == <<disk, temp, writer, seen>>

gepavars == <<timestamp, candidates, prompt_versions, current_md, preview_out,
              apply_out, optimization_history, nprev, ticks>>

vervars == <<optimizer, version_out, cleanup_out, nruns, ncleanups>>

sweepvars == <<cleanup_processor_running, cleanup_processor_thread, sweepers,
               cleanup_caller, sweep_requests>>

extras == <<savers, recorded, watcher_queue, jobs_root, watcher_out,
            rounds_lock, rounds_patients, rounds_threads, text, collapsed,
            triples>>

others == <<procvars, iovars, gepavars, vervars, sweepvars, extras>>

vars == <<clock, files, job_queue, worker, handler, nenq, started, accepted,
          others>>

(* ---- the Job Record Store ---- *)

\* the job dict after the assignments of update_job_status; completed_at is
\* modelled by whether the key is set
update_job_status_keep_progress(job, status, progress, current_phase, summary) ==
    [job EXCEPT !.status = status,
                !.progress = IF status = "ERROR" THEN @ ELSE progress,
                !.current_phase = current_phase,
                !.summary = summary,
                !.completed_at = IF status \in {"DONE", "ERROR"} THEN TRUE ELSE @]
update_job_status(job, status, progress, current_phase, summary) ==
    [job EXCEPT !.status = status,
                !.progress = progress,
                !.current_phase = current_phase,
                !.summary = summary,
                !.completed_at = IF status \in {"DONE", "ERROR"} THEN TRUE ELSE @]

is_job_cancelled(job_id) ==
    IF ~files[job_id].exists
    THEN TRUE
    ELSE files[job_id].status = "ERROR" /\ ContainsCancel(files[job_id].summary)

\* the job record overnight_optimize_endpoint writes
NewJobRecord ==
    [exists |-> TRUE, status |-> "QUEUED", progress |-> NoProgress,
     current_phase |-> PhaseNone, summary |-> SummaryNone,
     completed_at |-> FALSE, results |-> NoResults]

(* ---- pure helpers of the worker ---- *)

\* 25 + int(i * (65 / len(tasks))), i counted from 0; the float product
\* truncates to the integer quotient for every len(tasks) below 115
CurrentProgressNoOffset(i, n) == (i * 65) \div n
CurrentProgress(i, n) == 25 + ((i * 65) \div n)

\* lines 309-326: a candidate for the task is appended when the optimizer
\* returned a result without an error; the candidate is modelled by its task
AddCandidateAlways(gepa_candidates, task, outcome) ==
    IF outcome \in {"ok", "error"} THEN Append(gepa_candidates, task)
    ELSE gepa_candidates
AddCandidate(gepa_candidates, task, outcome) ==
    IF outcome = "ok" THEN Append(gepa_candidates, task) ELSE gepa_candidates

\* job_queue.pop(0): the entry taken and the queue left
QueuePopLast(q) == [item |-> q[Len(q)], rest |-> SubSeq(q, 1, Len(q) - 1)]
QueuePop(q) == [item |-> Head(q), rest |-> Tail(q)]

\* [j for j in job_queue if j['job_id'] != job_id]
QueueWithout(q, job_id) == SelectSeq(q, LAMBDA j : j.job_id # job_id)

\* job_data, i, gepa_candidates, results['asr_preview'] and job are the locals
\* of process_overnight_job; loaded/reading are the dict update_job_status
\* holds between its read and its write; last, succeeded and raised record
\* the history of the current call: the last progress it persisted, the
\* tasks whose optimization succeeded so far, and whether the except branch
\* was entered
IdleWorker ==
    [pc |-> "idle", job_data |-> NoJob, i |-> 0, gepa_candidates |-> << >>,
     asr_preview |-> FALSE, job |-> NoFile, loaded |-> NoFile,
     reading |-> FALSE, last |-> NoProgress, succeeded |-> << >>,
     raised |-> FALSE]

IdleHandler ==
    [pc |-> "idle", job_id |-> 0, ntasks |-> 0, status |-> "UNKNOWN",
     loaded |-> NoFile, response |-> "none"]

\* a thread that was not started yet, and the thread at the while of line 373
NoThread == [pc |-> "none", job_data |-> NoJob]

LoopThread == [pc |-> "loop", job_data |-> NoJob]

\* lines 3150-3159: initialize_server has called start_job_processor once
ProcInit ==
    /\ job_processor_running = TRUE
    /\ job_processor_thread = 1
    /\ threads = [t \in ThreadIds |-> IF t = 1 THEN LoopThread ELSE NoThread]
    /\ caller = "idle"

\* one job file, one candidate file and one prompt version file
Paths == {"data/jobs/job.json", "data/gepa/candidates/candidate.json",
          "llm/prompts/agent/v001.json"}

\* job files are written with open(path, 'w') and json.dump (lines 150, 357,
\* 2497); candidates and versions through atomic_write_json
\* (optim_gepa.py lines 58 and 1088)
UsesAtomicWrite(path) == path # "data/jobs/job.json"

\* file content: absent, complete JSON number v, truncated to nothing, or
\* the first part of JSON number v
NoContent == [kind |-> "absent", v |-> 0]

Complete(v) == [kind |-> "complete", v |-> v]

Empty == [kind |-> "empty", v |-> 0]

Partial(v) == [kind |-> "partial", v |-> v]

IdleWriter == [pc |-> "idle", v |-> 0]

IoInit ==
    /\ disk = [path \in Paths |-> NoContent]
    /\ temp = [path \in Paths |-> NoContent]
    /\ writer = [path \in Paths |-> IdleWriter]
    /\ seen = [path \in Paths |-> NoContent]

(* ---- values of the candidate store ---- *)

\* the tasks of the preview and apply requests
AgentTypes == {"quick-letter", "angiogram-pci"}

\* prompts are strings; the colon is the separator of the candidate id
Chars == {"x", ":"}

RECURSIVE StringsOfLen(_)
StringsOfLen(n) ==
    IF n = 0 THEN {<< >>}
    ELSE {Append(str, c) : str \in StringsOfLen(n - 1), c \in Chars}

Prompts == UNION {StringsOfLen(n) : n \in 1..MaxLen}

\* _get_current_prompt: the system_instructions of the agent's predictor
SystemInstructions(agent_type) == <<"x">>

\* avg_score of the baseline and of a candidate
BaselineScore == 50

Scores == {60, 70}

\* line 1085: a candidate lives 86400 * 7 seconds
CandidateTtl == 86400 * 7

\* hashlib.md5(content.encode()).hexdigest()[:16]: equal contents give equal
\* digests; the digest is taken to differ for different contents, so it is
\* written as the content it stands for
Md5Hex16(content) == content

\* lines 1063-1066: f"{agent_type}:{original_prompt}:{optimized_prompt}"
_generate_candidate_id(original_prompt, optimized_prompt, agent_type) ==
    Md5Hex16(<<agent_type, ":">> \o original_prompt \o <<":">> \o optimized_prompt)

\* a save whose id mixes the time of the save into the hashed content
_save_candidate_stamped(store, candidate_data, t) ==
    LET candidate_id == Md5Hex16(_generate_candidate_id(
                                     candidate_data.original_prompt,
                                     candidate_data.optimized_prompt,
                                     candidate_data.agent_type)
                                 \o <<":", ToString(t)>>)
        saved == [candidate_id |-> candidate_id, created_at |-> t,
                  expires_at |-> t + CandidateTtl] @@ candidate_data
    IN  [candidate_id |-> candidate_id,
         store |-> {c \in store : c.candidate_id # candidate_id} \cup {saved}]

\* lines 1068-1091: the file <candidate_id>.json is written, replacing a file
\* of that name
_save_candidate(store, candidate_data, t) ==
    LET candidate_id == _generate_candidate_id(candidate_data.original_prompt,
                                               candidate_data.optimized_prompt,
                                               candidate_data.agent_type)
        saved == [candidate_id |-> candidate_id, created_at |-> t,
                  expires_at |-> t + CandidateTtl] @@ candidate_data
    IN  [candidate_id |-> candidate_id,
         store |-> {c \in store : c.candidate_id # candidate_id} \cup {saved}]

NotLoaded == [found |-> FALSE]

\* a load that hands out whatever file it finds
_load_candidate_any_age(store, candidate_id, t) ==
    IF \A c \in store : c.candidate_id # candidate_id
    THEN [candidate_data |-> NotLoaded, store |-> store]
    ELSE LET candidate_data == CHOOSE c \in store : c.candidate_id = candidate_id
         IN  [candidate_data |-> [found |-> TRUE] @@ candidate_data,
              store |-> store]

\* lines 1097-1117: None for a missing file; an expired file is unlinked
_load_candidate(store, candidate_id, t) ==
    IF \A c \in store : c.candidate_id # candidate_id
    THEN [candidate_data |-> NotLoaded, store |-> store]
    ELSE LET candidate_data == CHOOSE c \in store : c.candidate_id = candidate_id
         IN  IF t > candidate_data.expires_at
             THEN [candidate_data |-> NotLoaded,
                   store |-> store \ {candidate_data}]
             ELSE [candidate_data |-> [found |-> TRUE] @@ candidate_data,
                   store |-> store]

\* lines 1123-1146
_cleanup_expired_candidates(store, t) == {c \in store : ~(t > c.expires_at)}

\* lines 1235-1261: the candidate is built, saved, and the store is swept
run_optimization_preview(store, agent_type, candidate_prompt, score, t) ==
    LET candidate_data ==
            [agent_type |-> agent_type,
             original_prompt |-> SystemInstructions(agent_type),
             optimized_prompt |-> candidate_prompt,
             baseline_metrics |-> [avg_score |-> BaselineScore],
             candidate_metrics |-> [avg_score |-> score],
             improvement |-> score - BaselineScore]
        saved == _save_candidate(store, candidate_data, t)
    IN  [result |-> [candidate_id |-> saved.candidate_id] @@ candidate_data,
         store |-> _cleanup_expired_candidates(saved.store, t)]

\* lines 1949 and 311: f"{task}-candidate-{int(now_melbourne().timestamp())}"
PreviewCandidateId(task, t) == <<task, "-candidate-", ToString(t)>>

\* lines 41-70: the version file v<iteration>_<date>.json is written,
\* replacing a file of that name, and current.md is rewritten
save_prompt_version(versions, current, agent_type, prompt, metrics, iteration, metadata, t) ==
    LET date == t \div 86400
        version_data == [agent_type |-> agent_type, iteration |-> iteration,
                         date |-> date, timestamp |-> t, prompt |-> prompt, metrics |-> metrics,
                         metadata |-> metadata]
    IN  [versions |-> {v \in versions : ~(/\ v.agent_type = agent_type
                                          /\ v.iteration = iteration
                                          /\ v.date = date)}
                      \cup {version_data},
         current |-> [current EXCEPT ![agent_type] =
                         [exists |-> TRUE, version |-> iteration,
                          prompt |-> prompt]]]

\* lines 1272-1352; loaded and stored record what _load_candidate returned
\* and whether the file was there before the call
apply_candidate(store, versions, current, agent_type, candidate_id, t) ==
    LET loaded == _load_candidate(store, candidate_id, t)
        candidate_data == loaded.candidate_data
        stored == \E c \in store : c.candidate_id = candidate_id
        unchanged == [store |-> loaded.store, versions |-> versions,
                      current |-> current, loaded |-> candidate_data,
                      stored |-> stored]
    IN  IF ~candidate_data.found
        THEN [error |-> "Candidate not found or expired"] @@ unchanged
        ELSE IF ~({"metrics_before", "metrics_after"} \subseteq DOMAIN candidate_data)
        THEN [error |-> "Failed to apply candidate: KeyError"] @@ unchanged
        ELSE IF candidate_data.optimized_prompt = << >>
        THEN [error |-> "Invalid candidate prompt in stored data"] @@ unchanged
        ELSE LET saved == save_prompt_version(
                              versions, current, agent_type,
                              candidate_data.optimized_prompt,
                              candidate_data.metrics_after, 1,
                              [candidate_id |-> candidate_id,
                               improvement |-> candidate_data.improvement], t)
             IN  [error |-> "none", store |-> loaded.store,
                  versions |-> saved.versions, current |-> saved.current,
                  loaded |-> candidate_data, stored |-> stored]

\* dspy-server.py line 2761: history[-100:]
HistoryCap == 100

LastEntries(history, n) ==
    IF Len(history) <= n THEN history
    ELSE SubSeq(history, Len(history) - n + 1, Len(history))

\* dspy-server.py lines 2732-2770: an entry is appended to the list in
\* optimization_history.json and the last HistoryCap entries are written
\* back; results is the dict apply_candidate returned, and a key it lacks
\* reads as the default of results.get
save_gepa_history_entry(history, task, results, t) ==
    LET entry == [timestamp |-> t, task |-> task,
                  improvement |-> IF "improvement" \in DOMAIN results
                                  THEN results.improvement ELSE 0,
                  saved_path |-> IF "saved_path" \in DOMAIN results
                                 THEN results.saved_path ELSE << >>]
    IN  LastEntries(Append(history, entry), HistoryCap)

\* optim_gepa.py lines 1289-1292, 1303-1306, 1326-1343 and 1349-1352: the
\* dict apply_candidate returns, an error dict or the dict of a saved version
ApplyResults(out, agent_type, candidate_id) ==
    IF out.error # "none"
    THEN [error |-> out.error, candidate_id |-> candidate_id]
    ELSE [candidate_id |-> candidate_id,
          improvement |-> out.loaded.improvement,
          saved_path |-> <<agent_type, "v001">>]

NoPreview == [reported |-> FALSE]

NoApply == [called |-> FALSE]

NoCurrent == [exists |-> FALSE, version |-> 0, prompt |-> << >>]

GepaInit ==
    /\ timestamp = 0
    /\ candidates = {}
    /\ prompt_versions = {}
    /\ current_md = [a \in AgentTypes |-> NoCurrent]
    /\ preview_out = NoPreview
    /\ apply_out = NoApply
    /\ optimization_history = << >>
    /\ nprev = 0
    /\ ticks = 0

(* ---- values of the prompt versions ---- *)

\* version=None of load_prompt_version
None == -1

\* the request bodies of the rollback endpoint name these versions
Versions == 0..(MaxIterations + 1)

\* optim_gepa.py lines 33-120: the methods class PromptVersionManager defines
PromptVersionManagerMethods ==
    {"__init__", "save_prompt_version", "load_prompt_version", "list_versions"}

\* lines 93-95: agent_dir.glob(f"v{version:03d}_*.json")
VersionFiles(versions, agent_type, version) ==
    {v \in versions : v.agent_type = agent_type /\ v.iteration = version}

NoVersion == [found |-> FALSE]

\* lines 72-98: the dicts the call can return.  Without a version the
\* number on the Version: line of current.md is taken; the file read is
\* version_files[0], and glob yields the files of one iteration (one per
\* date) in the order of the directory, which is any order
load_prompt_version(versions, current, agent_type, version) ==
    LET wanted == IF version # None THEN version
                  ELSE IF current[agent_type].exists
                       THEN current[agent_type].version ELSE None
        version_files == VersionFiles(versions, agent_type, wanted)
    IN  IF wanted = None \/ version_files = {} THEN {NoVersion}
        ELSE {[found |-> TRUE] @@ v : v \in version_files}

\* lines 100-120
list_versions(versions, agent_type) == {v \in versions : v.agent_type = agent_type}

\* f'Version {version} not found for {self.agent_type}'
VersionNotFound(version, agent_type) ==
    <<"Version ", ToString(version), " not found for ", agent_type>>

\* a rollback that goes on without the target version
rollback_to_version_unchecked(versions, current, agent_type, version, target_version, t) ==
    [error |-> <<"Rollback failed: ", "AttributeError">>,
     versions |-> versions, current |-> current]

\* lines 1364-1424; target_version is what load_prompt_version returned.
\* Line 1383 calls self.prompt_manager.get_available_versions, which
\* PromptVersionManager does not define: AttributeError, caught at line 1417
rollback_to_version(versions, current, agent_type, version, target_version, t) ==
    IF ~target_version.found
    THEN [error |-> VersionNotFound(version, agent_type),
          versions |-> versions, current |-> current]
    ELSE IF "get_available_versions" \notin PromptVersionManagerMethods
    THEN [error |-> <<"Rollback failed: ", "AttributeError">>,
          versions |-> versions, current |-> current]
    ELSE LET rollback_version == Cardinality(list_versions(versions, agent_type)) + 1
             saved == save_prompt_version(
                          versions, current, agent_type, target_version.prompt,
                          target_version.metrics, rollback_version,
                          [rollback_from_version |-> rollback_version - 1,
                           rollback_to_version |-> version,
                           rollback_timestamp |-> t,
                           rollback_reason |-> <<"Manual rollback to version ",
                                                 ToString(version)>>], t)
         IN  [error |-> << >>, versions |-> saved.versions,
              current |-> saved.current]

\* lines 1475-1515, with the same call of get_available_versions at line 1484
create_backup_snapshot(versions, current, agent_type, reason, score, t) ==
    IF "get_available_versions" \notin PromptVersionManagerMethods
    THEN [error |-> <<"Backup failed: ", "AttributeError">>,
          versions |-> versions, current |-> current]
    ELSE LET backup_version == Cardinality(list_versions(versions, agent_type)) + 1
             saved == save_prompt_version(
                          versions, current, agent_type,
                          SystemInstructions(agent_type),
                          [avg_score |-> score], backup_version,
                          [backup_snapshot |-> TRUE, backup_reason |-> reason,
                           backup_timestamp |-> t, is_manual_backup |-> TRUE],
                          t)
         IN  [error |-> << >>, versions |-> saved.versions,
              current |-> saved.current]

\* line 301: improvement_threshold is 0.1 by default; the scores of the
\* model are whole numbers, of which 1 is the smallest that reaches it
MeetsThreshold(improvement) == improvement >= 1

\* the prompts _generate_improved_prompt returns
ImprovedPrompts == StringsOfLen(1)

\* avg_score of a tested prompt
TestScores == Scores \cup {BaselineScore}

IdleOptimizer ==
    [pc |-> "idle", agent_type |-> "none", iteration |-> 0,
     best_prompt |-> << >>, best_score |-> 0]

NoVersionOut == [op |-> "none"]

NoCleanup == [called |-> FALSE]

VerInit ==
    /\ optimizer = IdleOptimizer
    /\ version_out = NoVersionOut
    /\ cleanup_out = NoCleanup
    /\ nruns = 0
    /\ ncleanups = 0

(* ---- values of the cleanup threads, the history writers, the ingest ---- *)
(* ---- watcher, the rounds backend and the text functions             ---- *)

\* the Flask request threads that run at once (app.run(threaded=True),
\* dspy-server.py line 3203)
Requests == 1..MaxRequests

\* the cleanup threads that start_cleanup_processor creates over time
SweeperIds == 1..MaxSweepers

\* dspy-server.py line 3159: initialize_server has called
\* start_cleanup_processor once; the thread is in the sleep of line 424
SweepInit ==
    /\ cleanup_processor_running = TRUE
    /\ cleanup_processor_thread = 1
    /\ sweepers = [t \in SweeperIds |-> IF t = 1 THEN "sleep" ELSE "none"]
    /\ cleanup_caller = "idle"
    /\ sweep_requests = [r \in Requests |-> "idle"]

IdleSaver == [pc |-> "idle", task |-> "none", history |-> << >>]

HistInit ==
    /\ savers = [r \in Requests |-> IdleSaver]
    /\ recorded = << >>

\* job ids are uuid4 strings (jobs.py lines 75-78): the n-th job created
\* has id n
IngestJobIds == 1..MaxInbox

NoIngestJob == [exists |-> FALSE, status |-> "none", error_message |-> "<None>"]

\* no call of _process_next_job was made yet
NoWatcherOut ==
    [calls |-> 0, returned |-> FALSE, job |-> 0, raised |-> FALSE,
     after_raise |-> FALSE, head |-> 0]

IngestInit ==
    /\ watcher_queue = << >>
    /\ jobs_root = [j \in IngestJobIds |-> NoIngestJob]
    /\ watcher_out = NoWatcherOut

\* a thread outside the backend; op is the method it called, patient the
\* id of the patient dict it built and patients its list
IdleRounds == [pc |-> "idle", op |-> "none", patient |-> 0, patients |-> << >>]

RoundsInit ==
    /\ rounds_lock = 0
    /\ rounds_patients = << >>
    /\ rounds_threads = [r \in Requests |-> IdleRounds]

NoText == [phrase |-> << >>, times |-> 0]

NotCollapsed == [called |-> FALSE]

NoTriples == << >>

TextInit ==
    /\ text = NoText
    /\ collapsed = NotCollapsed
    /\ triples = NoTriples

Init ==
    /\ clock = 0
    /\ files = [j \in JobIds |-> NoFile]
    /\ job_queue = << >>
    /\ worker = IdleWorker
    /\ handler = [h \in Handlers |-> IdleHandler]
    /\ nenq = 0
    /\ started = << >>
    /\ accepted = [j \in JobIds |-> "none"]
    /\ ProcInit
    /\ IoInit
    /\ GepaInit
    /\ VerInit
    /\ SweepInit
    /\ HistInit
    /\ IngestInit
    /\ RoundsInit
    /\ TextInit

(* ---- overnight_optimize_endpoint ---- *)

\* lines 2477-2498: job_id from the clock second, which is the second of the
\* previous enqueue or a later one; the job record is written
overnight_optimize_endpoint(h) ==
    /\ handler[h].pc = "idle"
    /\ nenq + Cardinality({g \in Handlers : handler[g].pc = "enq_append"}) < MaxJobs
    /\ \E n \in 1..MaxTasks, now \in {clock, clock + 1} :
         /\ now \in JobIds
         /\ clock' = now
         /\ handler' = [handler EXCEPT ![h] =
                          [IdleHandler EXCEPT !.pc = "enq_append", !.job_id = now,
                                              !.ntasks = n]]
         /\ files' = [files EXCEPT ![now] = NewJobRecord]
         /\ accepted' = [accepted EXCEPT ![now] = "none"]
    /\ UNCHANGED <<job_queue, worker, nenq, started, others>>

\* lines 2500-2518: append under job_queue_lock, respond QUEUED
EnqueueAppend(h) ==
    /\ handler[h].pc = "enq_append"
    /\ job_queue' = Append(job_queue,
                           [job_id |-> handler[h].job_id,
                            ntasks |-> handler[h].ntasks,
                            seq |-> nenq + 1])
    /\ nenq' = nenq + 1
    /\ handler' = [handler EXCEPT ![h] = [IdleHandler EXCEPT !.response = "queued"]]
    /\ UNCHANGED <<clock, files, worker, started, accepted, others>>

(* ---- cancel_job_endpoint ---- *)

\* lines 2679-2690 and 2705-2711: read the record, decide
CancelRead(h) ==
    /\ handler[h].pc = "idle"
    /\ \E job_id \in JobIds :
         handler' = [handler EXCEPT ![h] =
            IF ~files[job_id].exists
            THEN [IdleHandler EXCEPT !.response = "not_found"]
            ELSE IF files[job_id].status \in {"QUEUED", "RUNNING"}
                 THEN [IdleHandler EXCEPT !.pc = "cancel_remove", !.job_id = job_id,
                                          !.status = files[job_id].status]
                 ELSE [IdleHandler EXCEPT !.response = "rejected"]]
    /\ UNCHANGED <<clock, files, job_queue, worker, nenq, started, accepted, others>>

\* lines 2692-2693: drop the job from the queue under job_queue_lock
CancelRemove(h) ==
    /\ handler[h].pc = "cancel_remove"
    /\ job_queue' = QueueWithout(job_queue, handler[h].job_id)
    /\ handler' = [handler EXCEPT ![h] = [@ EXCEPT !.pc = "cancel_update"]]
    /\ UNCHANGED <<clock, files, worker, nenq, started, accepted, others>>

\* line 2696, update_job_status lines 136-138: read the record
CancelUpdateRead(h) ==
    /\ handler[h].pc = "cancel_update"
    /\ handler' = [handler EXCEPT ![h] =
          IF files[handler[h].job_id].exists
          THEN [@ EXCEPT !.pc = "cancel_write", !.loaded = files[handler[h].job_id]]
          ELSE [IdleHandler EXCEPT !.response = "cancelled"]]
    /\ UNCHANGED <<clock, files, job_queue, worker, nenq, started, accepted, others>>

\* line 2696, update_job_status lines 140-151: write ERROR; lines 2700-2704
CancelUpdateWrite(h) ==
    /\ handler[h].pc = "cancel_write"
    /\ files' = [files EXCEPT ![handler[h].job_id] =
                   update_job_status(handler[h].loaded, "ERROR", 0,
                                     PhaseCancelled, SummaryCancelled)]
    /\ accepted' = [accepted EXCEPT ![handler[h].job_id] = handler[h].status]
    /\ handler' = [handler EXCEPT ![h] = [IdleHandler EXCEPT !.response = "cancelled"]]
    /\ UNCHANGED <<clock, job_queue, worker, nenq, started, others>>

cancel_job_endpoint(h) ==
    \/ CancelRead(h)
    \/ CancelRemove(h)
    \/ CancelUpdateRead(h)
    \/ CancelUpdateWrite(h)

(* ---- job_processor and process_overnight_job ---- *)

wid == worker.job_data.job_id

\* lines 375-382: pop the head of the queue under job_queue_lock
job_processor ==
    /\ worker.pc = "idle"
    /\ job_queue # << >>
    /\ worker' = [IdleWorker EXCEPT !.pc = "L182", !.job_data = QueuePop(job_queue).item]
    /\ job_queue' = QueuePop(job_queue).rest
    /\ UNCHANGED <<clock, files, handler, nenq, started, accepted, others>>

\* a call of update_job_status by the worker at position here: the read of
\* lines 136-138, then as a second step the write of lines 140-151; a
\* missing file skips the update
WorkerUpdate(here, next, status, progress, current_phase, summary) ==
    /\ worker.pc = here
    /\ IF ~worker.reading
       THEN /\ worker' = IF files[wid].exists
                         THEN [worker EXCEPT !.loaded = files[wid], !.reading = TRUE]
                         ELSE [worker EXCEPT !.pc = next]
            /\ UNCHANGED files
       ELSE /\ files' = [files EXCEPT ![wid] =
                           update_job_status(worker.loaded, status, progress,
                                             current_phase, summary)]
            /\ worker' = [worker EXCEPT !.pc = next, !.reading = FALSE,
                                        !.loaded = NoFile,
                                        !.last = IF status = "ERROR" THEN @ ELSE progress]
    /\ UNCHANGED <<clock, job_queue, handler, nenq, accepted, others>>

\* a check whose answer is only logged: the worker goes on to the phase
WorkerCheckGoesOn(here, next) ==
    /\ worker.pc = here
    /\ worker' = [worker EXCEPT !.pc = next]
    /\ UNCHANGED <<clock, files, job_queue, handler, nenq, started, accepted, others>>
\* a cancellation check: return from process_overnight_job when cancelled
WorkerCheck(here, next) ==
    /\ worker.pc = here
    /\ worker' = [worker EXCEPT !.pc = IF is_job_cancelled(wid) THEN "ret" ELSE next]
    /\ UNCHANGED <<clock, files, job_queue, handler, nenq, started, accepted, others>>

\* line 182
SetRunning ==
    /\ WorkerUpdate("L182", "L185", "RUNNING", 0, PhaseInit, SummaryNone)
    /\ started' = IF worker.reading THEN Append(started, worker.job_data.seq)
                  ELSE started

\* lines 185-187
CheckBeforeStart == WorkerCheck("L185", "L197")

\* line 197
StartAsr ==
    /\ WorkerUpdate("L197", "L200", "RUNNING", 10, PhaseAsr, SummaryNone)
    /\ UNCHANGED started

\* lines 200-202
CheckBeforeAsr == WorkerCheck("L200", "L204")

\* lines 204-269: the ASR preview is produced when the corrections file holds
\* corrections and the mining does not raise; otherwise it stays None
AsrPhase ==
    /\ worker.pc = "L204"
    /\ \E preview \in BOOLEAN :
         worker' = [worker EXCEPT !.pc = "L271", !.asr_preview = preview]
    /\ UNCHANGED <<clock, files, job_queue, handler, nenq, started, accepted, others>>

\* line 271
AsrDone ==
    /\ WorkerUpdate("L271", "L274", "RUNNING", 20, PhaseAsrDone, SummaryNone)
    /\ UNCHANGED started

\* lines 274-276
CheckBeforeGepa == WorkerCheck("L274", "L280")

\* line 280
StartGepa ==
    /\ WorkerUpdate("L280", "L287", "RUNNING", 25, PhaseGepaStart, SummaryNone)
    /\ UNCHANGED started

\* lines 285-289: next task, or leave the loop; check before each task
TaskLoop ==
    /\ worker.pc = "L287"
    /\ worker' = [worker EXCEPT !.pc =
                    IF worker.i >= worker.job_data.ntasks THEN "L336"
                    ELSE IF is_job_cancelled(wid) THEN "ret"
                    ELSE "L294"]
    /\ UNCHANGED <<clock, files, job_queue, handler, nenq, started, accepted, others>>

\* lines 293-294
TaskProgress ==
    /\ WorkerUpdate("L294", "L297", "RUNNING",
                    CurrentProgress(worker.i, worker.job_data.ntasks),
                    PhaseTask, SummaryNone)
    /\ UNCHANGED started

\* lines 296-330: the agent is not enabled (continue), the optimizer returns
\* a result (candidate appended), returns None or an error, or raises
TaskRun ==
    /\ worker.pc = "L297"
    /\ \E outcome \in TaskOutcomes :
         worker' = [worker EXCEPT
                      !.pc = "L287",
                      !.i = @ + 1,
                      !.succeeded =
                          IF outcome = "ok" THEN Append(@, worker.i + 1) ELSE @,
                      !.gepa_candidates = AddCandidate(@, worker.i + 1, outcome)]
    /\ UNCHANGED <<clock, files, job_queue, handler, nenq, started, accepted, others>>

\* line 336
GepaDone ==
    /\ WorkerUpdate("L336", "L339", "RUNNING", 90, PhaseGepaDone, SummaryNone)
    /\ UNCHANGED started

\* lines 339-341
CheckBeforeFinal == WorkerCheck("L339", "L350")

\* lines 350-352: read the record into job when the file exists
FinalRead ==
    /\ worker.pc = "L350"
    /\ worker' = IF files[wid].exists
                 THEN [worker EXCEPT !.pc = "L354", !.job = files[wid]]
                 ELSE [worker EXCEPT !.pc = "L360"]
    /\ UNCHANGED <<clock, files, job_queue, handler, nenq, started, accepted, others>>

\* lines 354-358: results.get('asr_preview', {}) is None when phase 1 left
\* no preview, and None.get raises; otherwise results and summary are written
FinalWrite ==
    /\ worker.pc = "L354"
    /\ IF worker.asr_preview
       THEN /\ files' = [files EXCEPT ![wid] =
                           [worker.job EXCEPT
                              !.results = [present |-> TRUE,
                                           asr_preview |-> worker.asr_preview,
                                           candidates |-> worker.gepa_candidates],
                              !.summary = SummaryProcessed]]
            /\ worker' = [worker EXCEPT !.pc = "L360"]
       ELSE /\ worker' = [worker EXCEPT !.pc = "L367", !.raised = TRUE]
            /\ UNCHANGED files
    /\ UNCHANGED <<clock, job_queue, handler, nenq, started, accepted, others>>

\* line 360: job is unbound when the file was missing at line 350
SetDone ==
    IF worker.job.exists
    THEN /\ WorkerUpdate("L360", "ret", "DONE", 100, PhaseCompleted, SummaryProcessed)
         /\ UNCHANGED started
    ELSE /\ worker.pc = "L360"
         /\ worker' = [worker EXCEPT !.pc = "L367", !.raised = TRUE]
         /\ UNCHANGED <<clock, files, job_queue, handler, nenq, started, accepted, others>>

\* lines 363-367
SetError ==
    /\ WorkerUpdate("L367", "ret", "ERROR", 0, PhaseFailed, SummaryFailed)
    /\ UNCHANGED started

\* process_overnight_job returns to the loop of job_processor
WorkerReturn ==
    /\ worker.pc = "ret"
    /\ worker' = IdleWorker
    /\ UNCHANGED <<clock, files, job_queue, handler, nenq, started, accepted, others>>

process_overnight_job ==
    \/ SetRunning \/ CheckBeforeStart
    \/ StartAsr \/ CheckBeforeAsr \/ AsrPhase \/ AsrDone
    \/ CheckBeforeGepa \/ StartGepa \/ TaskLoop \/ TaskProgress \/ TaskRun
    \/ GepaDone \/ CheckBeforeFinal
    \/ FinalRead \/ FinalWrite \/ SetDone \/ SetError
    \/ WorkerReturn

Next ==
    \/ \E h \in Handlers : overnight_optimize_endpoint(h)
    \/ \E h \in Handlers : EnqueueAppend(h)
    \/ \E h \in Handlers : CancelRead(h)
    \/ \E h \in Handlers : CancelRemove(h)
    \/ \E h \in Handlers : CancelUpdateRead(h)
    \/ \E h \in Handlers : CancelUpdateWrite(h)
    \/ job_processor
    \/ SetRunning \/ CheckBeforeStart
    \/ StartAsr \/ CheckBeforeAsr \/ AsrPhase \/ AsrDone
    \/ CheckBeforeGepa \/ StartGepa \/ TaskLoop \/ TaskProgress \/ TaskRun
    \/ GepaDone \/ CheckBeforeFinal
    \/ FinalRead \/ FinalWrite \/ SetDone \/ SetError
    \/ WorkerReturn

Spec == Init /\ [][Next]_vars

TypeOK ==
    /\ clock \in 0..MaxJobs
    /\ nenq \in 0..MaxJobs
    /\ Len(job_queue) <= MaxJobs
    /\ \A j \in JobIds : files[j].progress \in {NoProgress} \cup 0..100

(* ---- the claims ---- *)

Terminal(job) == job.exists /\ job.status \in {"DONE", "ERROR"}

InQueue(job_data) == \E k \in DOMAIN job_queue : job_queue[k].seq = job_data.seq

\* the phase-2 task loop of the current job has run to its end
TaskLoopFinished ==
    /\ worker.job_data # NoJob
    /\ worker.i = worker.job_data.ntasks

\* C1: over the steps of the worker and of the cancel handler, a record whose
\* status is DONE or ERROR keeps that status
C1_TerminalStatusKept ==
    [][(process_overnight_job \/ \E h \in Handlers : cancel_job_endpoint(h))
         => \A j \in JobIds :
              Terminal(files[j]) => files'[j].status = files[j].status]_vars

\* C2: once a cancel that read status RUNNING has been accepted, the record
\* stays as the cancel wrote it: status ERROR, no later progress or phase
C2_CancelRunningSticks ==
    \A j \in JobIds :
        accepted[j] = "RUNNING"
            => /\ files[j].status = "ERROR"
               /\ files[j].progress = 0
               /\ files[j].current_phase = PhaseCancelled

\* C3: the worker sets jobs RUNNING in the order in which they were appended
\* to the queue
C3_FifoOrder ==
    \A a, b \in DOMAIN started : a < b => started[a] < started[b]

\* two jobs have been started after a cancel was accepted for one of them
C3_Witness ==
    /\ Len(started) >= 2
    /\ \E j \in JobIds : accepted[j] # "none"

\* C4: a job that was never cancelled and whose task loop finished returns
\* with status DONE, progress 100 and its results written, with or without
\* an ASR preview
C4_FinishedJobIsDone ==
    (worker.pc = "ret" /\ TaskLoopFinished /\ accepted[wid] = "none")
        => /\ files[wid].status = "DONE"
           /\ files[wid].progress = 100
           /\ files[wid].results.present

\* C5: when a task of an uncancelled job failed, the job still finishes DONE
\* and its candidates are exactly the succeeded tasks, in task-list order
C5_PartialFailureDone ==
    (/\ worker.pc = "ret" /\ TaskLoopFinished /\ accepted[wid] = "none"
     /\ Len(worker.succeeded) < worker.job_data.ntasks)
        => /\ files[wid].status = "DONE"
           /\ files[wid].results.present
           /\ files[wid].results.candidates = worker.succeeded

\* C6: once a cancel that read status QUEUED has been accepted, the job is
\* not in the queue, its record is ERROR with the cancellation summary, and
\* the worker never makes it RUNNING or DONE
C6_CancelQueuedSticks ==
    \A j \in JobIds :
        accepted[j] = "QUEUED"
            => /\ files[j].status = "ERROR"
               /\ ContainsCancel(files[j].summary)
               /\ \A k \in DOMAIN job_queue : job_queue[k].job_id # j

\* C7: a rejected cancel changes neither a record nor the queue, and no step
\* turns a DONE record into ERROR
C7_DoneNeverCancelled ==
    [][/\ \A h \in Handlers :
            (handler'[h] # handler[h] /\ handler'[h].response = "rejected")
                => UNCHANGED <<files, job_queue>>
       /\ \A j \in JobIds :
            (files[j].exists /\ files[j].status = "DONE")
                => files'[j].status # "ERROR"]_vars

\* C8: when the worker returns after an unhandled exception, the record is
\* ERROR with the exception summary, its progress is the last value the
\* worker persisted, and the job is not back on the queue
C8_ErrorKeepsProgress ==
    (worker.pc = "ret" /\ worker.raised)
        => /\ files[wid].status = "ERROR"
           /\ files[wid].summary = SummaryFailed
           /\ files[wid].progress = worker.last
           /\ ~InQueue(worker.job_data)

\* C8 as amended: the write of the except branch leaves the record ERROR
\* with the exception summary and progress 0, and the job is not on the queue
C8_ErrorResetsProgress ==
    [][(worker.pc = "L367" /\ worker.reading /\ worker'.pc = "ret")
         => /\ files'[wid].status = "ERROR"
            /\ files'[wid].summary = SummaryFailed
            /\ files'[wid].progress = 0
            /\ \A k \in DOMAIN job_queue' :
                  job_queue'[k].seq # worker.job_data.seq]_vars

\* the except branch has written its record after progress 90 was persisted
C8_Witness ==
    /\ worker.pc = "ret"
    /\ worker.raised
    /\ worker.last = 90
    /\ files[wid].status = "ERROR"
    /\ files[wid].summary = SummaryFailed
    /\ files[wid].progress = 0

C10_CompletedAtIffTerminal ==
    \A j \in JobIds :
        files[j].exists
            => (files[j].completed_at <=> files[j].status \in {"DONE", "ERROR"})

(* ---- the worker loop and a restart of the process ---- *)

\* no request is in flight, the queue is empty and the worker waits in its
\* loop: no step of the worker or of a handler is left to take
Quiescent ==
    /\ worker.pc = "idle"
    /\ job_queue = << >>
    /\ \A h \in Handlers : handler[h].pc = "idle"

\* this step is the write of an update_job_status call that passes DONE or
\* ERROR for job j (lines 360, 367 and 2696), which stamps completed_at
Finalized(j) ==
    /\ SetDone \/ SetError \/ \E h \in Handlers : CancelUpdateWrite(h)
    /\ files'[j] # files[j]

\* C11: from its enqueue on a job is finalized once: no finalizing write lands
\* on a record that is DONE or ERROR already
C11_FinalizedOnce ==
    [][\A j \in JobIds : Finalized(j) => ~Terminal(files[j])]_vars

\* lines 102-106 and 3150-3159: the process ends and starts again. job_queue,
\* the worker thread and the request threads are gone, data/jobs is kept;
\* initialize_server starts a worker on an empty queue and reads no job file
ProcessRestart ==
    /\ ~Quiescent
    /\ job_queue' = << >>
    /\ worker' = IdleWorker
    /\ handler' = [h \in Handlers |-> IdleHandler]
    /\ UNCHANGED <<clock, files, nenq, started, accepted, others>>

NextRestart ==
    \/ Next
    \/ ProcessRestart

SpecRestart == Init /\ [][NextRestart]_vars

\* C12: with restarts, once the started worker has nothing left to do no
\* record is left QUEUED or RUNNING
C12_PersistedJobsFinish ==
    Quiescent => \A j \in JobIds : files[j].exists => Terminal(files[j])

\* C14: the record of every entry of the in-memory queue exists and is QUEUED
C14_QueuedEntryHasQueuedRecord ==
    \A k \in DOMAIN job_queue :
        /\ files[job_queue[k].job_id].exists
        /\ files[job_queue[k].job_id].status = "QUEUED"

\* C15: an enqueue takes a job id no earlier enqueue has taken: it writes no
\* record that exists and the queue holds no two entries with one id
C15_DistinctJobIds ==
    [][\A h \in Handlers :
          /\ overnight_optimize_endpoint(h)
                => ~files[handler'[h].job_id].exists
          /\ EnqueueAppend(h)
                => \A k \in DOMAIN job_queue :
                      job_queue[k].job_id # handler[h].job_id]_vars

(* ---- start_job_processor, stop_job_processor and the threads ---- *)

\* lines 391-399: a new thread is started when the flag is down
start_job_processor ==
    /\ caller = "idle"
    /\ IF ~job_processor_running
       THEN \E t \in ThreadIds :
              /\ threads[t] = NoThread
              /\ \A u \in ThreadIds : u < t => threads[u] # NoThread
              /\ job_processor_running' = TRUE
              /\ job_processor_thread' = t
              /\ threads' = [threads EXCEPT ![t] = LoopThread]
       ELSE UNCHANGED <<job_processor_running, job_processor_thread, threads>>
    /\ UNCHANGED <<caller, jobvars, iovars, gepavars, vervars, sweepvars, extras>>

\* lines 404-406: the flag is cleared, then the caller joins the thread
stop_job_processor ==
    /\ caller = "idle"
    /\ job_processor_running' = FALSE
    /\ caller' = "join"
    /\ UNCHANGED <<job_processor_thread, threads, jobvars, iovars, gepavars, vervars, sweepvars, extras>>

\* line 406, join(timeout=10): the join ends when the thread has ended, or
\* after ten seconds while the thread is inside process_overnight_job; a
\* thread in the sleep of line 384 wakes after five seconds and ends first
JoinReturn ==
    /\ caller = "join"
    /\ threads[job_processor_thread].pc \in {"dead", "job"}
    /\ caller' = "idle"
    /\ UNCHANGED <<job_processor_running, job_processor_thread, threads, jobvars, iovars, gepavars, vervars, sweepvars, extras>>

\* line 373: the while condition
LoopCheck(t) ==
    /\ threads[t].pc = "loop"
    /\ threads' = [threads EXCEPT ![t].pc =
                      IF job_processor_running THEN "pop" ELSE "dead"]
    /\ UNCHANGED <<job_processor_running, job_processor_thread, caller, jobvars, iovars, gepavars, vervars, sweepvars, extras>>

\* lines 375-384: pop under the lock, then process the job or sleep
ThreadPop(t) ==
    /\ threads[t].pc = "pop"
    /\ IF job_queue # << >>
       THEN /\ job_queue' = QueuePop(job_queue).rest
            /\ threads' = [threads EXCEPT ![t] =
                              [pc |-> "job", job_data |-> QueuePop(job_queue).item]]
       ELSE /\ threads' = [threads EXCEPT ![t].pc = "sleep"]
            /\ UNCHANGED job_queue
    /\ UNCHANGED <<job_processor_running, job_processor_thread, caller>>
    /\ UNCHANGED <<clock, files, worker, handler, nenq, started, accepted, iovars, gepavars, vervars, sweepvars, extras>>

\* line 382: process_overnight_job returns
ThreadJobDone(t) ==
    /\ threads[t].pc = "job"
    /\ threads' = [threads EXCEPT ![t] = LoopThread]
    /\ UNCHANGED <<job_processor_running, job_processor_thread, caller, jobvars, iovars, gepavars, vervars, sweepvars, extras>>

\* line 384: the sleep ends
ThreadWake(t) ==
    /\ threads[t].pc = "sleep"
    /\ threads' = [threads EXCEPT ![t].pc = "loop"]
    /\ UNCHANGED <<job_processor_running, job_processor_thread, caller, jobvars, iovars, gepavars, vervars, sweepvars, extras>>

NextProc ==
    \/ \E h \in Handlers : overnight_optimize_endpoint(h)
    \/ \E h \in Handlers : EnqueueAppend(h)
    \/ start_job_processor
    \/ stop_job_processor
    \/ JoinReturn
    \/ \E t \in ThreadIds : LoopCheck(t)
    \/ \E t \in ThreadIds : ThreadPop(t)
    \/ \E t \in ThreadIds : ThreadJobDone(t)
    \/ \E t \in ThreadIds : ThreadWake(t)

SpecProc == Init /\ [][NextProc]_vars

\* the threads inside the loop of job_processor
AliveThreads == {t \in ThreadIds : threads[t].pc \in {"loop", "pop", "job", "sleep"}}

\* C13: at most one worker loop is alive and at most one job is in
\* process_overnight_job
C13_SingleWorker ==
    /\ Cardinality(AliveThreads) <= 1
    /\ Cardinality({t \in ThreadIds : threads[t].pc = "job"}) <= 1

(* ---- writers and readers of one file ---- *)

\* a thread starts to write content v to the path: open(path, 'w') truncates
\* the file at once (lines 150, 357, 2497); atomic_write_json creates its
\* temporary file next to the target (utils.py lines 27-31)
OpenForWrite(path) ==
    /\ writer[path].pc = "idle"
    /\ \E v \in 1..MaxWrites :
         /\ disk[path].kind = "absent" => v = 1
         /\ disk[path].kind # "absent" => v = disk[path].v + 1
         /\ writer' = [writer EXCEPT ![path] = [pc |-> "dump", v |-> v]]
    /\ IF UsesAtomicWrite(path)
       THEN /\ temp' = [temp EXCEPT ![path] = Empty]
            /\ UNCHANGED disk
       ELSE /\ disk' = [disk EXCEPT ![path] = Empty]
            /\ UNCHANGED temp
    /\ UNCHANGED <<seen, jobvars, procvars, gepavars, vervars, sweepvars, extras>>

\* json.dump fills the buffer of the file object; a full buffer is written
\* out before the rest is produced.  A temporary file that was unlinked
\* meanwhile stays open for the writer, but has no name any more
DumpFlush(path) ==
    /\ writer[path].pc = "dump"
    /\ writer' = [writer EXCEPT ![path].pc = "close"]
    /\ IF UsesAtomicWrite(path)
       THEN /\ temp' = [temp EXCEPT ![path] =
                           IF @.kind = "absent" THEN @
                           ELSE Partial(writer[path].v)]
            /\ UNCHANGED disk
       ELSE /\ disk' = [disk EXCEPT ![path] = Partial(writer[path].v)]
            /\ UNCHANGED temp
    /\ UNCHANGED <<seen, jobvars, procvars, gepavars, vervars, sweepvars, extras>>

\* the with block ends: the rest of the buffer is written and the file is
\* closed; atomic_write_json then moves the temporary file onto the target
\* (utils.py line 40).  When the temporary file has no name any more,
\* shutil.move raises, the except branch re-raises (lines 42-48) and the
\* target keeps what it held
CloseFile(path) ==
    /\ writer[path].pc \in {"dump", "close"}
    /\ writer' = [writer EXCEPT ![path] = IdleWriter]
    /\ disk' = IF UsesAtomicWrite(path) /\ temp[path].kind = "absent"
               THEN disk
               ELSE [disk EXCEPT ![path] = Complete(writer[path].v)]
    /\ temp' = [temp EXCEPT ![path] = NoContent]
    /\ UNCHANGED <<seen, jobvars, procvars, gepavars, vervars, sweepvars, extras>>

\* a reader opens the path and reads all of it (lines 137-138, 163-164,
\* 2634-2635, 2684-2685; optim_gepa.py lines 97-98 and 1106-1107)
ReadFile(path) ==
    /\ seen' = [seen EXCEPT ![path] = disk[path]]
    /\ UNCHANGED <<disk, temp, writer, jobvars, procvars, gepavars, vervars, sweepvars, extras>>

NextIo ==
    \/ \E path \in Paths : OpenForWrite(path)
    \/ \E path \in Paths : DumpFlush(path)
    \/ \E path \in Paths : CloseFile(path)
    \/ \E path \in Paths : ReadFile(path)

SpecIo == Init /\ [][NextIo]_vars

\* C16: a reader obtains a complete content (or no file before the first
\* write), never an empty or a partly written file
C16_ReaderSeesCompleteFile ==
    \A path \in Paths : seen[path].kind \in {"absent", "complete"}

(* ---- previews and applies of optimization candidates ---- *)

\* the clock moves on by a second or by the lifetime of a candidate
AdvanceTime ==
    /\ ticks < MaxTicks
    /\ ticks' = ticks + 1
    /\ \E d \in {1, CandidateTtl} : timestamp' = timestamp + d
    /\ UNCHANGED <<candidates, prompt_versions, current_md, preview_out,
                   apply_out, optimization_history, nprev, jobvars, procvars,
                   iovars, vervars, sweepvars, extras>>

\* the stored records of the triple (agent_type, original_prompt,
\* optimized_prompt)
SameTriple(store, agent_type, original_prompt, optimized_prompt) ==
    {c \in store : /\ c.agent_type = agent_type
                   /\ c.original_prompt = original_prompt
                   /\ c.optimized_prompt = optimized_prompt}

\* one task of a preview: run_optimization_preview generates and saves a
\* candidate, or returns an error dict and saves nothing (lines 1175-1227);
\* the caller reports a candidate under the id of PreviewCandidateId.
\* replaced is the stored records of the same triple before the save
PreviewTask(task, via) ==
    /\ nprev < MaxPreviews
    /\ nprev' = nprev + 1
    /\ \/ \E candidate_prompt \in Prompts \ {SystemInstructions(task)},
             score \in Scores :
            LET out == run_optimization_preview(candidates, task,
                                                candidate_prompt, score, timestamp)
            IN  /\ candidates' = out.store
                /\ preview_out' =
                      [reported |-> TRUE, via |-> via, error |-> FALSE,
                       id |-> PreviewCandidateId(task, timestamp),
                       task |-> task,
                       after |-> out.result.optimized_prompt,
                       improvement |-> out.result.improvement,
                       candidate_id |-> out.result.candidate_id,
                       replaced |-> SameTriple(candidates, task,
                                               SystemInstructions(task),
                                               candidate_prompt)]
       \/ /\ UNCHANGED candidates
          /\ preview_out' =
                IF via = "job" THEN NoPreview
                ELSE [reported |-> TRUE, via |-> via, error |-> TRUE,
                      id |-> PreviewCandidateId(task, timestamp),
                      task |-> task, after |-> << >>, improvement |-> 0,
                      candidate_id |-> << >>, replaced |-> {}]
    /\ UNCHANGED <<timestamp, prompt_versions, current_md, apply_out,
                   optimization_history, ticks, jobvars, procvars, iovars,
                   vervars, sweepvars, extras>>

\* lines 1933-1966: `if optimization_results:` also takes an error dict
gepa_preview_endpoint(task) == PreviewTask(task, "endpoint")

\* lines 304-326: a result with an 'error' key is not reported
JobTaskPreview(task) == PreviewTask(task, "job")

\* the candidate ids a client can send: those a preview reported and those
\* of the files in data/gepa/candidates
KnownIds ==
    {c.candidate_id : c \in candidates}
        \cup (IF preview_out.reported THEN {preview_out.id} ELSE {})

\* lines 2040-2089, one item of the request, for a task is_dspy_enabled
\* accepts: GEPAOptimizer(task).apply_candidate(candidate_id); a dict, also
\* an error dict, is true in `if apply_results:` (line 2064), so the item is
\* appended to applied and save_gepa_history_entry is called; errors gets
\* an item only when apply_candidate returns nothing or something raises
gepa_apply_endpoint(task, candidate_id) ==
    /\ candidate_id \in KnownIds
    /\ Len(optimization_history) < MaxApplies
    /\ LET out == apply_candidate(candidates, prompt_versions, current_md, task,
                                  candidate_id, timestamp)
           apply_results == ApplyResults(out, task, candidate_id)
           item == [task |-> task, candidate_id |-> candidate_id]
       IN  /\ candidates' = out.store
           /\ prompt_versions' = out.versions
           /\ current_md' = out.current
           /\ optimization_history' =
                 save_gepa_history_entry(optimization_history, task,
                                         apply_results, timestamp)
           /\ apply_out' = [called |-> TRUE, task |-> task,
                            candidate_id |-> candidate_id,
                            stored |-> out.stored, loaded |-> out.loaded,
                            error |-> out.error,
                            applied |-> <<item>>, errors |-> << >>]
    /\ UNCHANGED <<timestamp, preview_out, nprev, ticks, jobvars, procvars,
                   iovars, vervars, sweepvars, extras>>

NextGepa ==
    \/ AdvanceTime
    \/ \E task \in AgentTypes : gepa_preview_endpoint(task)
    \/ \E task \in AgentTypes : JobTaskPreview(task)
    \/ \E task \in AgentTypes, candidate_id \in KnownIds :
          gepa_apply_endpoint(task, candidate_id)

SpecGepa == Init /\ [][NextGepa]_vars

\* C17: a save of a triple (agent_type, original_prompt, optimized_prompt)
\* that is stored already returns the id of the stored record, whatever the
\* metrics and the time, and leaves one record of the triple
C17_SaveTwiceSameId ==
    [][\A task \in AgentTypes :
          /\ gepa_preview_endpoint(task) \/ JobTaskPreview(task)
          /\ preview_out'.reported
          /\ ~preview_out'.error
          => /\ \A c \in preview_out'.replaced :
                    c.candidate_id = preview_out'.candidate_id
             /\ Cardinality(SameTriple(candidates', task,
                                       SystemInstructions(task),
                                       preview_out'.after)) = 1]_vars

\* a triple was saved a second time, later and with other metrics
C17_Witness ==
    /\ preview_out.reported
    /\ ~preview_out.error
    /\ \E old \in preview_out.replaced, c \in candidates :
         /\ c.candidate_id = preview_out.candidate_id
         /\ old.candidate_id = c.candidate_id
         /\ old.created_at # c.created_at
         /\ old.improvement # c.improvement

\* C18: a load of a stored candidate whose expiry time has passed returns
\* nothing and removes the record; a load of an unexpired one returns the
\* record as stored and leaves the store alone
C18_LoadNeverReturnsExpired ==
    [][\A task \in AgentTypes, candidate_id \in KnownIds :
          gepa_apply_endpoint(task, candidate_id)
          => \A c \in candidates :
                c.candidate_id = candidate_id
                => IF timestamp > c.expires_at
                   THEN /\ ~apply_out'.loaded.found
                        /\ c \notin candidates'
                   ELSE /\ apply_out'.loaded = ([found |-> TRUE] @@ c)
                        /\ candidates' = candidates]_vars

\* a load met a stored candidate that had expired
C18_Witness ==
    /\ apply_out.called
    /\ apply_out.stored
    /\ ~apply_out.loaded.found
    /\ \A c \in candidates : c.candidate_id # apply_out.candidate_id

\* C19: the id a preview reports for a saved candidate is the candidate_id
\* under which _save_candidate stored it
C19_PreviewReportsCandidateId ==
    preview_out.reported /\ ~preview_out.error
        => preview_out.id = preview_out.candidate_id

C21_UnknownCandidateRejected ==
    [][\A task \in AgentTypes, candidate_id \in KnownIds :
          /\ gepa_apply_endpoint(task, candidate_id)
          /\ ~apply_out'.loaded.found
          => /\ apply_out'.applied = << >>
             /\ apply_out'.errors # << >>
             /\ prompt_versions' = prompt_versions
             /\ current_md' = current_md
             /\ optimization_history' = optimization_history]_vars

(* ---- run_optimization, rollback, backup and load of prompt versions ---- *)

\* optim_gepa.py lines 328-349: the baseline is evaluated; without results
\* the call returns an error, otherwise the current prompt is saved as
\* iteration 0 and the loop starts
RunOptimizationStart(agent_type) ==
    /\ optimizer.pc = "idle"
    /\ nruns < MaxRuns
    /\ nruns' = nruns + 1
    /\ \/ UNCHANGED <<optimizer, prompt_versions, current_md>>
       \/ LET initial_prompt == SystemInstructions(agent_type)
              saved == save_prompt_version(
                           prompt_versions, current_md, agent_type,
                           initial_prompt, [avg_score |-> BaselineScore], 0,
                           [note |-> "Original baseline prompt before optimization"],
                           timestamp)
          IN  /\ prompt_versions' = saved.versions
              /\ current_md' = saved.current
              /\ optimizer' = [pc |-> "loop", agent_type |-> agent_type,
                               iteration |-> 1, best_prompt |-> initial_prompt,
                               best_score |-> BaselineScore]
    /\ UNCHANGED <<timestamp, candidates, preview_out, apply_out,
                   optimization_history, nprev, ticks, version_out,
                   cleanup_out, ncleanups, jobvars, procvars, iovars, sweepvars, extras>>

\* the optimizer after iteration optimizer.iteration: the loop of line 359
\* ends after max_iterations iterations
NextIteration(o) ==
    IF o.iteration >= MaxIterations THEN IdleOptimizer
    ELSE [o EXCEPT !.iteration = @ + 1]

\* lines 359-409, one iteration: no new prompt ends the loop; a failed test
\* or an exception skips the iteration; a tested prompt is saved under the
\* number of the iteration when it improves on the best score by the
\* threshold
RunOptimizationIteration ==
    /\ optimizer.pc = "loop"
    /\ \/ /\ optimizer' = IdleOptimizer
          /\ UNCHANGED <<prompt_versions, current_md>>
       \/ /\ optimizer' = NextIteration(optimizer)
          /\ UNCHANGED <<prompt_versions, current_md>>
       \/ \E new_prompt \in ImprovedPrompts \ {optimizer.best_prompt},
             avg_score \in TestScores :
            LET improvement == avg_score - optimizer.best_score
                saved == save_prompt_version(
                             prompt_versions, current_md, optimizer.agent_type,
                             new_prompt, [avg_score |-> avg_score],
                             optimizer.iteration,
                             [improvement |-> improvement,
                              previous_score |-> optimizer.best_score],
                             timestamp)
            IN  IF MeetsThreshold(improvement)
                THEN /\ prompt_versions' = saved.versions
                     /\ current_md' = saved.current
                     /\ optimizer' =
                           NextIteration([optimizer EXCEPT
                                             !.best_prompt = new_prompt,
                                             !.best_score = avg_score])
                ELSE /\ optimizer' = NextIteration(optimizer)
                     /\ UNCHANGED <<prompt_versions, current_md>>
    /\ UNCHANGED <<timestamp, candidates, preview_out, apply_out,
                   optimization_history, nprev, ticks, version_out,
                   cleanup_out, nruns, ncleanups, jobvars, procvars, iovars, sweepvars, extras>>

\* dspy-server.py lines 2213-2240: a result with an 'error' key is answered
\* with success False and status 500
gepa_rollback_endpoint(agent_type, version) ==
    /\ \E target_version \in load_prompt_version(prompt_versions, current_md,
                                                 agent_type, version) :
         LET rollback_results ==
                 rollback_to_version(prompt_versions, current_md, agent_type,
                                     version, target_version, timestamp)
         IN  /\ prompt_versions' = rollback_results.versions
             /\ current_md' = rollback_results.current
             /\ version_out' =
                   [op |-> "rollback", agent_type |-> agent_type,
                    version |-> version,
                    found |-> target_version.found,
                    error |-> rollback_results.error,
                    success |-> rollback_results.error = << >>]
    /\ UNCHANGED <<timestamp, candidates, preview_out, apply_out,
                   optimization_history, nprev, ticks, optimizer, cleanup_out,
                   nruns, ncleanups, jobvars, procvars, iovars, sweepvars, extras>>

\* the reason of a backup request
Reasons == {"Manual backup via API"}

\* dspy-server.py lines 2329-2343
gepa_backup_endpoint(agent_type, reason) ==
    /\ \E score \in {BaselineScore} :
         LET backup_results ==
                 create_backup_snapshot(prompt_versions, current_md, agent_type,
                                        reason, score, timestamp)
         IN  /\ prompt_versions' = backup_results.versions
             /\ current_md' = backup_results.current
             /\ version_out' =
                   [op |-> "backup", agent_type |-> agent_type,
                    error |-> backup_results.error,
                    success |-> backup_results.error = << >>]
    /\ UNCHANGED <<timestamp, candidates, preview_out, apply_out,
                   optimization_history, nprev, ticks, optimizer, cleanup_out,
                   nruns, ncleanups, jobvars, procvars, iovars, sweepvars, extras>>

\* a caller of load_prompt_version(agent_type), version left out
LoadCurrent(agent_type) ==
    /\ \E loaded \in load_prompt_version(prompt_versions, current_md,
                                         agent_type, None) :
         version_out' = [op |-> "load", agent_type |-> agent_type,
                         loaded |-> loaded]
    /\ UNCHANGED <<timestamp, candidates, prompt_versions, current_md,
                   preview_out, apply_out, optimization_history, nprev, ticks,
                   optimizer, cleanup_out, nruns, ncleanups, jobvars, procvars,
                   iovars, sweepvars, extras>>

(* ---- the retention sweeper ---- *)

\* max_age_days and keep_recent_backups of a request to the cleanup
\* endpoint, which takes max_age_days > 0 and keep_recent_backups >= 0
\* (dspy-server.py lines 2393-2401)
MaxAgeDays == {1, 30}

KeepRecentBackups == {0, 1}

\* and of the calls of cleanup_processor (dspy-server.py lines 443-446)
ProcessorMaxAgeDays == 30

ProcessorKeepRecentBackups == 5

\* optim_gepa.py line 1544: datetime.now() - timedelta(days=max_age_days)
CutoffDate(t, max_age_days) == t - max_age_days * 86400

\* optimization_history.json holds the list save_gepa_history_entry dumps
\* (dspy-server.py lines 2745, 2758 and 2765)
HistoryJsonType == "list"

\* candidate_data.get('id', ''): _save_candidate stores the id under the key
\* 'candidate_id' (line 1083), so the default is returned
CandidateDataId(candidate_data) ==
    IF "id" \in DOMAIN candidate_data THEN candidate_data.id ELSE << >>

\* lines 1723-1744: no history file, no reference; history_data.get raises
\* AttributeError on a list and the except of line 1741 passes; on a dict
\* every entry newer than the cutoff whose text holds the id counts, and
\* the empty id is held by every text
_is_candidate_referenced(history, candidate_data, cutoff_date) ==
    IF history = << >> THEN FALSE
    ELSE IF HistoryJsonType # "dict" THEN FALSE
    ELSE \E i \in 1..Len(history) :
            /\ history[i].timestamp > cutoff_date
            /\ CandidateDataId(candidate_data) = << >>

\* lines 1590-1620: a file whose modification time, the time of its save, is
\* before the cutoff is unlinked unless it is referenced
_cleanup_candidates(store, history, cutoff_date) ==
    {c \in store : \/ ~(c.created_at < cutoff_date)
                   \/ _is_candidate_referenced(history, c, cutoff_date)}

\* lines 1622-1653: a job file is unlinked when it has a completed_at and
\* that time is before the cutoff; older is the jobs whose completed_at,
\* where they have one, is before the cutoff
_cleanup_jobs(job_files, older) ==
    [j \in JobIds |->
        IF job_files[j].exists /\ job_files[j].completed_at /\ j \in older
        THEN NoFile ELSE job_files[j]]

\* lines 1668-1674: the version files with metadata.backup_snapshot
BackupFiles(versions, agent_type) ==
    {v \in list_versions(versions, agent_type) :
        /\ "backup_snapshot" \in DOMAIN v.metadata
        /\ v.metadata.backup_snapshot}

\* line 1677: sort by backup_timestamp, newest first; files of one
\* timestamp stay in the order glob gave them, which is any order
SortNewestFirst(backup_files) ==
    LET n == Cardinality(backup_files)
    IN  {order \in [1..n -> backup_files] :
            \A i, j \in 1..n :
                i < j => /\ order[i] # order[j]
                         /\ order[i].metadata.backup_timestamp
                                >= order[j].metadata.backup_timestamp}

\* lines 1680-1689: enumerate counts from 0, the sequence from 1
UnlinkedFrom(sorted, keep_recent) ==
    {sorted[i] : i \in {n \in DOMAIN sorted : n - 1 >= keep_recent}}

OldestFirst(sorted) == [i \in DOMAIN sorted |-> sorted[Len(sorted) + 1 - i]]

\* the sets of files the loop of lines 1680-1689 can unlink in the
\* directory of one agent
UnlinkedSets(versions, agent_type, keep_recent) ==
    LET backup_files == BackupFiles(versions, agent_type)
    IN  {UnlinkedFrom(sorted, keep_recent) :
            sorted \in SortNewestFirst(backup_files)}

\* a sweep that keeps the oldest backups
_cleanup_backups_oldest(versions, keep_recent) ==
    LET backup_files == [a \in AgentTypes |-> BackupFiles(versions, a)]
        unlinked_sets ==
            [a \in AgentTypes |->
                {UnlinkedFrom(OldestFirst(sorted), keep_recent) :
                    sorted \in SortNewestFirst(backup_files[a])}]
    IN  {versions \ unlinked :
           unlinked \in
             {set \in SUBSET UNION {backup_files[a] : a \in AgentTypes} :
                \A a \in AgentTypes :
                   set \cap backup_files[a] \in unlinked_sets[a]}}

\* lines 1655-1694: the version files a sweep can leave; the directory of
\* each agent (line 1663) is swept by itself
_cleanup_backups(versions, keep_recent) ==
    LET backup_files == [a \in AgentTypes |-> BackupFiles(versions, a)]
        unlinked_sets ==
            [a \in AgentTypes |-> UnlinkedSets(versions, a, keep_recent)]
    IN  {versions \ unlinked :
           unlinked \in
             {set \in SUBSET UNION {backup_files[a] : a \in AgentTypes} :
                \A a \in AgentTypes :
                   set \cap backup_files[a] \in unlinked_sets[a]}}

\* the categories cleanup_expired_data goes through, lines 1547-1571, in
\* the order of the calls
Categories == <<"candidates", "jobs", "backups", "temp_files", "asr">>

NoFailure == [category |-> "none", where |-> "none"]

\* the exception a sweep meets, if it meets one: inside the helper of a
\* category, whose own try catches it (lines 1617, 1650, 1691, 1718, 1802),
\* or in cleanup_expired_data at the exists() of the directory of the
\* category (lines 1549, 1554, 1559), where the try of line 1546 catches it
Failures ==
    {NoFailure}
        \cup {[category |-> Categories[i], where |-> "helper"] :
                 i \in DOMAIN Categories}
        \cup {[category |-> Categories[i], where |-> "caller"] : i \in 1..3}

\* the categories left as they are: the one whose helper gave up, or, when
\* the except of line 1583 is entered, that of the failing call and all
\* that come after it
Skipped(failure) ==
    IF failure.where = "helper" THEN {failure.category}
    ELSE IF failure.where = "caller"
    THEN {Categories[i] : i \in {n \in DOMAIN Categories :
                \E k \in 1..n : Categories[k] = failure.category}}
    ELSE {}

\* lines 1583-1585: the one place that appends to stats['errors']
Errors(failure) ==
    IF failure.where = "caller" THEN <<"Privacy cleanup failed">> ELSE << >>

\* lines 1517-1588.  The completed_at of a job file is a time the model
\* does not keep: the job files are swept as with every completed_at before
\* the cutoff, or with none before it.  The temporary files swept are those
\* of an atomic_write_json in progress (utils.py line 28, suffix
\* .json.tmp); data/asr is not part of the state
cleanup_expired_data(max_age_days, keep_recent_backups, failure) ==
    /\ ncleanups < MaxCleanups
    /\ ncleanups' = ncleanups + 1
    /\ LET cutoff_date == CutoffDate(timestamp, max_age_days)
           skipped == Skipped(failure)
       IN  /\ candidates' =
                 IF "candidates" \in skipped THEN candidates
                 ELSE _cleanup_candidates(candidates, optimization_history,
                                          cutoff_date)
           /\ files' \in
                 IF "jobs" \in skipped THEN {files}
                 ELSE {_cleanup_jobs(files, older) : older \in {{}, JobIds}}
           /\ prompt_versions' \in
                 IF "backups" \in skipped THEN {prompt_versions}
                 ELSE _cleanup_backups(prompt_versions, keep_recent_backups)
           /\ temp' = IF "temp_files" \in skipped THEN temp
                      ELSE [path \in Paths |-> NoContent]
           /\ cleanup_out' =
                 [called |-> TRUE, errors |-> Errors(failure),
                  candidates_cleaned |-> Cardinality(candidates \ candidates'),
                  jobs_cleaned |->
                      Cardinality({j \in JobIds : files'[j] # files[j]}),
                  backups_cleaned |->
                      Cardinality(prompt_versions \ prompt_versions')]
    /\ UNCHANGED <<clock, job_queue, worker, handler, nenq, started, accepted,
                   procvars, disk, writer, seen, timestamp, current_md,
                   preview_out, apply_out, optimization_history, nprev, ticks,
                   optimizer, version_out, nruns, extras>>

\* dspy-server.py lines 2393-2410
cleanup_endpoint ==
    /\ \E max_age_days \in MaxAgeDays, keep_recent_backups \in KeepRecentBackups,
          failure \in Failures :
           cleanup_expired_data(max_age_days, keep_recent_backups, failure)
    /\ UNCHANGED sweepvars

\* dspy-server.py lines 440-446: the sweep that runs every six hours
cleanup_processor ==
    /\ \E failure \in Failures :
           cleanup_expired_data(ProcessorMaxAgeDays, ProcessorKeepRecentBackups,
                                failure)
    /\ UNCHANGED sweepvars

NextVersions ==
    \/ AdvanceTime
    \/ \E agent_type \in AgentTypes : RunOptimizationStart(agent_type)
    \/ RunOptimizationIteration
    \/ \E agent_type \in AgentTypes, version \in Versions :
          gepa_rollback_endpoint(agent_type, version)
    \/ \E agent_type \in AgentTypes, reason \in Reasons :
          gepa_backup_endpoint(agent_type, reason)
    \/ \E agent_type \in AgentTypes : LoadCurrent(agent_type)
    \/ cleanup_endpoint

SpecVersions == Init /\ [][NextVersions]_vars

\* the largest iteration among the version files of an agent, -1 for none
MaxIteration(versions, agent_type) ==
    IF list_versions(versions, agent_type) = {} THEN -1
    ELSE CHOOSE n \in {v.iteration : v \in list_versions(versions, agent_type)} :
            \A v \in list_versions(versions, agent_type) : v.iteration <= n

\* the step adds a version file of the agent whose iteration is above every
\* iteration the agent had, and changes no file that was there
AddsNewestVersion(agent_type) ==
    /\ prompt_versions \subseteq prompt_versions'
    /\ \E v \in prompt_versions' \ prompt_versions :
          /\ v.agent_type = agent_type
          /\ v.iteration > MaxIteration(prompt_versions, agent_type)

C24_RollbackRestoresVersion ==
    [][\A agent_type \in AgentTypes, version \in Versions :
          /\ gepa_rollback_endpoint(agent_type, version)
          /\ VersionFiles(prompt_versions, agent_type, version) # {}
          => /\ version_out'.success
             /\ \A loaded \in load_prompt_version(prompt_versions', current_md',
                                                  agent_type, None) :
                   /\ loaded.found
                   /\ \E target \in VersionFiles(prompt_versions, agent_type,
                                                 version) :
                         /\ loaded.prompt = target.prompt
                         /\ loaded.metrics = target.metrics
                   /\ {"rollback_from_version", "rollback_to_version",
                       "rollback_reason"} \subseteq DOMAIN loaded.metadata
                   /\ loaded.metadata.rollback_to_version = version]_vars

\* the version files of an agent that no other file of the agent is newer
\* than
LastSaved(versions, agent_type) ==
    {v \in list_versions(versions, agent_type) :
        \A u \in list_versions(versions, agent_type) : u.timestamp <= v.timestamp}

\* C25: for an agent with at least one saved version, load_prompt_version
\* without an iteration returns the most recently saved version, and the
\* number in current.md is the iteration of exactly one version file
C25_CurrentIsLastSaved ==
    [][\A agent_type \in AgentTypes :
          /\ LoadCurrent(agent_type)
          /\ list_versions(prompt_versions, agent_type) # {}
          => /\ version_out'.loaded.found
             /\ \E v \in LastSaved(prompt_versions, agent_type) :
                   version_out'.loaded = ([found |-> TRUE] @@ v)
             /\ Cardinality(VersionFiles(prompt_versions, agent_type,
                                         current_md[agent_type].version)) = 1]_vars

\* C26: a rollback to an iteration that has no version file returns the
\* error that names the version and the agent, the endpoint answers with a
\* failure, and the version files and current.md stay as they were
C26_RollbackToMissingVersion ==
    [][\A agent_type \in AgentTypes, version \in Versions :
          /\ gepa_rollback_endpoint(agent_type, version)
          /\ VersionFiles(prompt_versions, agent_type, version) = {}
          => /\ version_out'.error = VersionNotFound(version, agent_type)
             /\ ~version_out'.success
             /\ prompt_versions' = prompt_versions
             /\ current_md' = current_md]_vars

\* a rollback named an iteration the agent, which has versions, lacks
C26_Witness ==
    /\ version_out.op = "rollback"
    /\ ~version_out.found
    /\ ~version_out.success
    /\ version_out.error = VersionNotFound(version_out.version,
                                           version_out.agent_type)
    /\ list_versions(prompt_versions, version_out.agent_type) # {}
    /\ VersionFiles(prompt_versions, version_out.agent_type,
                    version_out.version) = {}

(* ---- the sweep of a prompt directory that holds backups ---- *)

\* the version file create_backup_snapshot writes at time t (lines 1485-1493)
BackupVersion(agent_type, iteration, t) ==
    [agent_type |-> agent_type, iteration |-> iteration, date |-> t \div 86400,
     timestamp |-> t, prompt |-> SystemInstructions(agent_type),
     metrics |-> [avg_score |-> BaselineScore],
     metadata |-> [backup_snapshot |-> TRUE,
                   backup_reason |-> "Manual backup via API",
                   backup_timestamp |-> t, is_manual_backup |-> TRUE]]

\* the version file run_optimization writes for an improved prompt
\* (lines 388-395)
ImprovedVersion(agent_type, iteration, t) ==
    [agent_type |-> agent_type, iteration |-> iteration, date |-> t \div 86400,
     timestamp |-> t, prompt |-> <<":">>, metrics |-> [avg_score |-> 60],
     metadata |-> [improvement |-> 10, previous_score |-> BaselineScore]]

\* the contents of llm/prompts the sweep is applied to: files of one agent,
\* at most one of each iteration
PromptDirs ==
    {dir \in SUBSET UNION {{BackupVersion("quick-letter", n, t),
                            ImprovedVersion("quick-letter", n, 0)} :
                              n \in 1..MaxBackupFiles, t \in {0, CandidateTtl}} :
        \A v, u \in dir : v.iteration = u.iteration => v = u}

InitBackups ==
    /\ clock = 0
    /\ files = [j \in JobIds |-> NoFile]
    /\ job_queue = << >>
    /\ worker = IdleWorker
    /\ handler = [h \in Handlers |-> IdleHandler]
    /\ nenq = 0
    /\ started = << >>
    /\ accepted = [j \in JobIds |-> "none"]
    /\ ProcInit
    /\ IoInit
    /\ VerInit
    /\ SweepInit
    /\ HistInit
    /\ IngestInit
    /\ RoundsInit
    /\ TextInit
    /\ timestamp = CandidateTtl
    /\ candidates = {}
    /\ preview_out = NoPreview
    /\ apply_out = NoApply
    /\ optimization_history = << >>
    /\ nprev = 0
    /\ ticks = 0
    /\ prompt_versions \in PromptDirs
    /\ \E v \in prompt_versions \cup {NoVersion} :
          current_md = [a \in AgentTypes |->
                          IF "iteration" \in DOMAIN v /\ a = v.agent_type
                          THEN [exists |-> TRUE, version |-> v.iteration,
                                prompt |-> v.prompt]
                          ELSE NoCurrent]

NextBackups == cleanup_endpoint \/ cleanup_processor

SpecBackups == InitBackups /\ [][NextBackups]_vars

Min(a, b) == IF a <= b THEN a ELSE b

\* C27: a sweep with keep_recent_backups = N leaves each agent
\* min(N, number of backups) backups, none of them older by backup
\* timestamp than a deleted one, and every version that is not a backup
C27_KeepsRecentBackups ==
    [][\A max_age_days \in MaxAgeDays \cup {ProcessorMaxAgeDays},
          keep_recent_backups \in KeepRecentBackups \cup {ProcessorKeepRecentBackups},
          failure \in {f \in Failures : "backups" \notin Skipped(f)} :
          cleanup_expired_data(max_age_days, keep_recent_backups, failure)
          => \A agent_type \in AgentTypes :
               LET before == BackupFiles(prompt_versions, agent_type)
                   after == BackupFiles(prompt_versions', agent_type)
               IN  /\ after \subseteq before
                   /\ Cardinality(after)
                         = Min(keep_recent_backups, Cardinality(before))
                   /\ \A kept \in after, deleted \in before \ after :
                         kept.metadata.backup_timestamp
                             >= deleted.metadata.backup_timestamp
                   /\ list_versions(prompt_versions', agent_type) \ after
                         = list_versions(prompt_versions, agent_type) \ before]_vars

\* a sweep deleted backups, kept a backup and left a version that is no
\* backup
C27_Witness ==
    /\ cleanup_out.called
    /\ cleanup_out.backups_cleaned > 0
    /\ \E agent_type \in AgentTypes :
          /\ BackupFiles(prompt_versions, agent_type) # {}
          /\ list_versions(prompt_versions, agent_type)
                 \ BackupFiles(prompt_versions, agent_type) # {}

(* ---- the sweep of the job files while jobs are queued and run ---- *)

\* the steps of Next for at most MaxSweptJobs jobs, and the periodic sweep
NextJobSweep ==
    \/ \E h \in Handlers :
          nenq < MaxSweptJobs /\ overnight_optimize_endpoint(h)
    \/ \E h \in Handlers : EnqueueAppend(h)
    \/ \E h \in Handlers : CancelRead(h)
    \/ \E h \in Handlers : CancelRemove(h)
    \/ \E h \in Handlers : CancelUpdateRead(h)
    \/ \E h \in Handlers : CancelUpdateWrite(h)
    \/ job_processor
    \/ SetRunning \/ CheckBeforeStart
    \/ StartAsr \/ CheckBeforeAsr \/ AsrPhase \/ AsrDone
    \/ CheckBeforeGepa \/ StartGepa \/ TaskLoop \/ TaskProgress \/ TaskRun
    \/ GepaDone \/ CheckBeforeFinal
    \/ FinalRead \/ FinalWrite \/ SetDone \/ SetError
    \/ WorkerReturn
    \/ cleanup_processor

SpecJobSweep == Init /\ [][NextJobSweep]_vars

\* C28: a sweep deletes a job file only if the record has a completed_at;
\* a record without completed_at, and the record of a job that is QUEUED or
\* RUNNING, is never deleted
C28_SweepSparesUnfinishedJobs ==
    [][cleanup_processor
       => \A j \in JobIds :
             files[j].exists /\ ~files'[j].exists
             => /\ files[j].completed_at
                /\ files[j].status \notin {"QUEUED", "RUNNING"}]_vars

(* ---- the sweep of the candidate store ---- *)

NextSweep ==
    \/ AdvanceTime
    \/ \E task \in AgentTypes :
          nprev < MaxSweptPreviews /\ gepa_preview_endpoint(task)
    \/ \E task \in AgentTypes, candidate_id \in KnownIds :
          gepa_apply_endpoint(task, candidate_id)
    \/ cleanup_endpoint

SpecSweep == Init /\ [][NextSweep]_vars

\* the last entry of the apply history was written for the apply of this
\* candidate and is newer than the cutoff
ReferencedSince(candidate_data, cutoff_date) ==
    /\ apply_out.called
    /\ apply_out.candidate_id = candidate_data.candidate_id
    /\ optimization_history # << >>
    /\ optimization_history[Len(optimization_history)].timestamp > cutoff_date

C30_FailureRecordedOthersProcessed ==
    [][\A max_age_days \in MaxAgeDays, keep_recent_backups \in KeepRecentBackups,
          failure \in Failures \ {NoFailure} :
          cleanup_expired_data(max_age_days, keep_recent_backups, failure)
          => /\ cleanup_out'.errors # << >>
             /\ failure.category # "candidates"
                => candidates' = _cleanup_candidates(
                                     candidates, optimization_history,
                                     CutoffDate(timestamp, max_age_days))
             /\ failure.category # "jobs"
                => \E older \in {{}, JobIds} : files' = _cleanup_jobs(files, older)
             /\ failure.category # "backups"
                => prompt_versions' \in _cleanup_backups(prompt_versions,
                                                         keep_recent_backups)
             /\ failure.category # "temp_files"
                => temp' = [path \in Paths |-> NoContent]]_vars

(* ---- start_cleanup_processor, stop_cleanup_processor and the sweeps ---- *)

\* dspy-server.py lines 482-490: a new thread is started when the flag is
\* down; the thread enters the sleep of line 424
start_cleanup_processor ==
    /\ cleanup_caller = "idle"
    /\ IF ~cleanup_processor_running
       THEN \E t \in SweeperIds :
              /\ sweepers[t] = "none"
              /\ \A u \in SweeperIds : u < t => sweepers[u] # "none"
              /\ cleanup_processor_running' = TRUE
              /\ cleanup_processor_thread' = t
              /\ sweepers' = [sweepers EXCEPT ![t] = "sleep"]
       ELSE UNCHANGED <<cleanup_processor_running, cleanup_processor_thread,
                        sweepers>>
    /\ UNCHANGED <<cleanup_caller, sweep_requests, jobvars, procvars, iovars,
                   gepavars, vervars, extras>>

\* lines 492-497: the flag is cleared, then the caller joins the thread
stop_cleanup_processor ==
    /\ cleanup_caller = "idle"
    /\ cleanup_processor_running' = FALSE
    /\ cleanup_caller' = "join"
    /\ UNCHANGED <<cleanup_processor_thread, sweepers, sweep_requests, jobvars,
                   procvars, iovars, gepavars, vervars, extras>>

\* line 497, join(timeout=10): the join ends when the thread has ended or
\* after ten seconds; the thread sleeps six hours (lines 421 and 424), so
\* the join ends wherever the thread is
CleanupJoinReturn ==
    /\ cleanup_caller = "join"
    /\ cleanup_caller' = "idle"
    /\ UNCHANGED <<cleanup_processor_running, cleanup_processor_thread,
                   sweepers, sweep_requests, jobvars, procvars, iovars,
                   gepavars, vervars, extras>>

\* lines 424-427: the sleep ends; the thread leaves the loop when the flag
\* is down and goes on to the call of cleanup_expired_data otherwise
SweeperWake(t) ==
    /\ sweepers[t] = "sleep"
    /\ sweepers' = [sweepers EXCEPT ![t] =
                       IF cleanup_processor_running THEN "sweep" ELSE "dead"]
    /\ UNCHANGED <<cleanup_processor_running, cleanup_processor_thread,
                   cleanup_caller, sweep_requests, jobvars, procvars, iovars,
                   gepavars, vervars, extras>>

\* lines 440-446 and the while of line 422: the call of cleanup_expired_data
\* returns and the loop condition is read
SweeperSweep(t) ==
    /\ sweepers[t] = "sweep"
    /\ \E failure \in Failures :
           cleanup_expired_data(ProcessorMaxAgeDays, ProcessorKeepRecentBackups,
                                failure)
    /\ sweepers' = [sweepers EXCEPT ![t] =
                       IF cleanup_processor_running THEN "sleep" ELSE "dead"]
    /\ UNCHANGED <<cleanup_processor_running, cleanup_processor_thread,
                   cleanup_caller, sweep_requests>>

\* lines 2393-2410: a request thread has validated its parameters and calls
\* cleanup_expired_data; no lock is taken
RequestSweepBegin(r) ==
    /\ sweep_requests[r] = "idle"
    /\ sweep_requests' = [sweep_requests EXCEPT ![r] = "sweep"]
    /\ UNCHANGED <<cleanup_processor_running, cleanup_processor_thread,
                   sweepers, cleanup_caller, jobvars, procvars, iovars,
                   gepavars, vervars, extras>>

\* line 2410: the call returns
RequestSweepEnd(r) ==
    /\ sweep_requests[r] = "sweep"
    /\ \E max_age_days \in MaxAgeDays, keep_recent_backups \in KeepRecentBackups,
          failure \in Failures :
           cleanup_expired_data(max_age_days, keep_recent_backups, failure)
    /\ sweep_requests' = [sweep_requests EXCEPT ![r] = "idle"]
    /\ UNCHANGED <<cleanup_processor_running, cleanup_processor_thread,
                   sweepers, cleanup_caller>>

NextCleanupProc ==
    \/ start_cleanup_processor
    \/ stop_cleanup_processor
    \/ CleanupJoinReturn
    \/ \E t \in SweeperIds : SweeperWake(t)
    \/ \E t \in SweeperIds : SweeperSweep(t)
    \/ \E r \in Requests : RequestSweepBegin(r)
    \/ \E r \in Requests : RequestSweepEnd(r)

SpecCleanupProc == Init /\ [][NextCleanupProc]_vars

\* the threads that are inside cleanup_expired_data
Sweeping ==
    {<<"thread", t>> : t \in {u \in SweeperIds : sweepers[u] = "sweep"}}
        \cup {<<"request", r>> : r \in {q \in Requests : sweep_requests[q] = "sweep"}}

\* C31: at most one thread is inside cleanup_expired_data, and at most one
\* cleanup_processor loop is alive
C31_SingleSweep ==
    /\ Cardinality(Sweeping) <= 1
    /\ Cardinality({t \in SweeperIds : sweepers[t] \in {"sleep", "sweep"}}) <= 1

(* ---- concurrent writers of the apply-history log ---- *)

\* the dict apply_candidate returns to gepa_apply_endpoint for a candidate
\* of a preview: the error dict of its except branch (optim_gepa.py lines
\* 1349-1352)
SavedResults == [error |-> "KeyError", candidate_id |-> <<"candidate">>]

\* dspy-server.py lines 2735-2744, called at line 2075: a request thread
\* in save_gepa_history_entry has loaded the list of the history file;
\* no lock is held
SaveRead(r, task) ==
    /\ savers[r].pc = "idle"
    /\ Len(recorded) + Cardinality({q \in Requests : savers[q].pc # "idle"})
          < MaxSaves
    /\ savers' = [savers EXCEPT ![r] = [pc |-> "loaded", task |-> task,
                                         history |-> optimization_history]]
    /\ UNCHANGED <<recorded, watcher_queue, jobs_root, watcher_out,
                   rounds_lock, rounds_patients, rounds_threads, text,
                   collapsed, triples, jobvars, procvars, iovars, gepavars,
                   vervars, sweepvars>>

\* lines 2747-2765: the entry is appended to the list the thread loaded and
\* the last 100 entries of that list are written to the file
SaveWrite(r) ==
    /\ savers[r].pc = "loaded"
    /\ LET history == save_gepa_history_entry(savers[r].history, savers[r].task,
                                              SavedResults, timestamp)
       IN  /\ optimization_history' = history
           /\ recorded' = Append(recorded, history[Len(history)])
    /\ savers' = [savers EXCEPT ![r] = IdleSaver]
    /\ UNCHANGED <<timestamp, candidates, prompt_versions, current_md,
                   preview_out, apply_out, nprev, ticks>>
    /\ UNCHANGED <<watcher_queue, jobs_root, watcher_out, rounds_lock,
                   rounds_patients, rounds_threads, text, collapsed, triples,
                   jobvars, procvars, iovars, vervars, sweepvars>>

NextHistory ==
    \/ AdvanceTime
    \/ \E r \in Requests, task \in AgentTypes : SaveRead(r, task)
    \/ \E r \in Requests : SaveWrite(r)

SpecHistory == Init /\ [][NextHistory]_vars

\* C32: when no save is in progress, the history file holds the most
\* recent min(n, 100) of the n entries recorded so far, in the order they
\* were written
C32_HistoryKeepsEveryApply ==
    (\A r \in Requests : savers[r].pc = "idle")
        => optimization_history = LastEntries(recorded, HistoryCap)

(* ---- the ingest Watcher ---- *)

\* Job.error_message of a job that met no error (jobs.py line 56: None)
NoMessage == "<None>"

\* str(exc) of the exceptions process_job raises: whisper_client.py lines
\* 28 and 87, lm_client.py line 33, pipeline.py line 128
ExceptionMessages ==
    {"Audio file not found", "Whisper transcription failed",
     "Failed to reach LM Studio", "LM Studio triage response was not valid JSON"}

\* how a call of Pipeline.process_job ends (pipeline.py lines 62-112): it
\* returns with the status of _determine_status, or it raises after the
\* job was persisted with the status it had then (lines 71 and 78)
ProcessOutcomes ==
    {[raised |-> FALSE, status |-> st, message |-> NoMessage] :
        st \in {"completed", "triaged", "needs_review"}}
    \cup {[raised |-> TRUE, status |-> st, message |-> msg] :
             st \in {"pending", "transcribed"}, msg \in ExceptionMessages}

\* jobs.py lines 87-100: the mirror file jobs_root/<job.id>.json
save_job(store, job, status, error_message) ==
    [store EXCEPT ![job] = [exists |-> TRUE, status |-> status,
                            error_message |-> error_message]]

\* watcher.py lines 85-123: a file of the inbox becomes a job with a fresh
\* id and is appended to the queue; the job is not persisted yet
_scan_inbox ==
    /\ \E job \in IngestJobIds :
          /\ \A k \in DOMAIN watcher_queue : watcher_queue[k] # job
          /\ ~jobs_root[job].exists
          /\ \A older \in IngestJobIds :
                older < job =>
                   \/ jobs_root[older].exists
                   \/ \E k \in DOMAIN watcher_queue : watcher_queue[k] = older
          /\ watcher_queue' = Append(watcher_queue, job)
    /\ UNCHANGED <<jobs_root, watcher_out, savers, recorded, rounds_lock,
                   rounds_patients, rounds_threads, text, collapsed, triples,
                   jobvars, procvars, iovars, gepavars, vervars, sweepvars>>

\* the same call with the except branch leaving out save_job
_process_next_job_unsaved(outcome) ==
    /\ watcher_out.calls <= MaxInbox
    /\ IF watcher_queue = << >>
       THEN /\ watcher_out' = [watcher_out EXCEPT !.calls = @ + 1,
                                   !.returned = FALSE, !.job = 0,
                                   !.after_raise = watcher_out.raised,
                                   !.raised = FALSE, !.head = 0]
            /\ UNCHANGED <<watcher_queue, jobs_root>>
       ELSE LET job == Head(watcher_queue)
            IN  /\ watcher_queue' = Tail(watcher_queue)
                /\ jobs_root' = save_job(jobs_root, job, outcome.status,
                                         NoMessage)
                /\ watcher_out' = [watcher_out EXCEPT !.calls = @ + 1,
                                       !.returned = TRUE, !.job = job,
                                       !.after_raise = watcher_out.raised,
                                       !.raised = outcome.raised, !.head = job]
    /\ UNCHANGED <<savers, recorded, rounds_lock, rounds_patients,
                   rounds_threads, text, collapsed, triples, jobvars, procvars,
                   iovars, gepavars, vervars, sweepvars>>
\* watcher.py lines 130-148: False for an empty queue; else the head is
\* taken off the queue under the lock and given to process_job, which
\* persists the job; when process_job raises, the job is saved with status
\* error and str(exc); True is returned on both paths.  calls, after_raise
\* and head record the history: the number of calls so far, whether the
\* call before this one met an exception, and the head of the queue when
\* this call began (0 for an empty queue)
_process_next_job(outcome) ==
    /\ watcher_out.calls <= MaxInbox
    /\ IF watcher_queue = << >>
       THEN /\ watcher_out' = [watcher_out EXCEPT !.calls = @ + 1,
                                   !.returned = FALSE, !.job = 0,
                                   !.after_raise = watcher_out.raised,
                                   !.raised = FALSE, !.head = 0]
            /\ UNCHANGED <<watcher_queue, jobs_root>>
       ELSE LET job == Head(watcher_queue)
            IN  /\ watcher_queue' = Tail(watcher_queue)
                /\ jobs_root' =
                      IF outcome.raised
                      THEN save_job(jobs_root, job, "error", outcome.message)
                      ELSE save_job(jobs_root, job, outcome.status, NoMessage)
                /\ watcher_out' = [watcher_out EXCEPT !.calls = @ + 1,
                                       !.returned = TRUE, !.job = job,
                                       !.after_raise = watcher_out.raised,
                                       !.raised = outcome.raised, !.head = job]
    /\ UNCHANGED <<savers, recorded, rounds_lock, rounds_patients,
                   rounds_threads, text, collapsed, triples, jobvars, procvars,
                   iovars, gepavars, vervars, sweepvars>>

NextWatcher ==
    \/ _scan_inbox
    \/ \E outcome \in ProcessOutcomes : _process_next_job(outcome)

SpecWatcher == Init /\ [][NextWatcher]_vars

\* C33: a call of _process_next_job in which process_job raised has
\* returned True, its job is off the queue and persisted with status error
\* and a non-empty error_message; and a call that follows such a call and
\* finds a job queued returns True with that job persisted
C33_FailedJobIsErrorAndQueueGoesOn ==
    /\ watcher_out.raised =>
          /\ watcher_out.returned
          /\ \A k \in DOMAIN watcher_queue : watcher_queue[k] # watcher_out.job
          /\ jobs_root[watcher_out.job].exists
          /\ jobs_root[watcher_out.job].status = "error"
          /\ jobs_root[watcher_out.job].error_message \notin {NoMessage, ""}
    /\ watcher_out.after_raise /\ watcher_out.head # 0 =>
          /\ watcher_out.returned
          /\ watcher_out.job = watcher_out.head
          /\ jobs_root[watcher_out.head].exists
          /\ jobs_root[watcher_out.head].status # "pending"

\* a job failed and the call after it processed the next queued job
C33_Witness ==
    /\ watcher_out.after_raise
    /\ watcher_out.head # 0
    /\ \E job \in IngestJobIds :
          job # watcher_out.head /\ jobs_root[job].status = "error"

(* ---- RoundsBackend ---- *)

\* patient ids are "patient-<uuid4>" (rounds_backend.py lines 20-23): the
\* n-th patient built has id n
PatientIds == 1..MaxPatients

\* the lists a PUT /rounds/patients request passes to save_patients
\* (api_server.py lines 212-224)
SavePayloads == {<< >>} \cup {<<patient>> : patient \in PatientIds}

RoundsUnchanged ==
    UNCHANGED <<savers, recorded, watcher_queue, jobs_root, watcher_out, text,
                collapsed, triples, jobvars, procvars, iovars, gepavars,
                vervars, sweepvars>>

\* rounds_backend.py lines 55-91: quick_add_patient with a non-empty name
\* has built the patient dict with a fresh id and stands before the
\* `with _ROUNDS_LOCK:` of line 92
QuickAddCall(r) ==
    /\ rounds_threads[r].pc = "idle"
    /\ \E patient \in PatientIds :
          /\ \A q \in Requests : rounds_threads[q].patient # patient
          /\ \A k \in DOMAIN rounds_patients : rounds_patients[k] # patient
          /\ \A older \in PatientIds :
                older < patient =>
                   \/ \E q \in Requests : rounds_threads[q].patient = older
                   \/ \E k \in DOMAIN rounds_patients : rounds_patients[k] = older
          /\ rounds_threads' = [rounds_threads EXCEPT ![r] =
                                   [pc |-> "L92", op |-> "quick_add_patient",
                                    patient |-> patient, patients |-> << >>]]
    /\ UNCHANGED <<rounds_lock, rounds_patients>>
    /\ RoundsUnchanged

\* line 92: threading.Lock.acquire blocks until the lock is free
QuickAddAcquire(r) ==
    /\ rounds_threads[r].pc = "L92"
    /\ rounds_lock = 0
    /\ rounds_lock' = r
    /\ rounds_threads' = [rounds_threads EXCEPT ![r].pc = "L93"]
    /\ UNCHANGED rounds_patients
    /\ RoundsUnchanged

\* lines 93-95: the list is loaded, the patient appended, and
\* self.save_patients(patients) is called: the thread stands before the
\* `with _ROUNDS_LOCK:` of line 49
QuickAddLoad(r) ==
    /\ rounds_threads[r].pc = "L93"
    /\ rounds_threads' = [rounds_threads EXCEPT
                             ![r].pc = "L49",
                             ![r].patients = Append(rounds_patients,
                                                    rounds_threads[r].patient)]
    /\ UNCHANGED <<rounds_lock, rounds_patients>>
    /\ RoundsUnchanged

\* api_server.py line 224: a request thread calls save_patients itself
SavePatientsCall(r, payload) ==
    /\ rounds_threads[r].pc = "idle"
    /\ rounds_threads' = [rounds_threads EXCEPT ![r] =
                             [pc |-> "L49", op |-> "save_patients",
                              patient |-> 0, patients |-> payload]]
    /\ UNCHANGED <<rounds_lock, rounds_patients>>
    /\ RoundsUnchanged

\* line 49 of save_patients: _ROUNDS_LOCK is a threading.Lock (line 12),
\* which is not reentrant: the acquire waits for the lock to be free also
\* when the waiting thread is the one that holds it
SavePatientsAcquire(r) ==
    /\ rounds_threads[r].pc = "L49"
    /\ rounds_lock = 0
    /\ rounds_lock' = r
    /\ rounds_threads' = [rounds_threads EXCEPT ![r].pc = "L51"]
    /\ UNCHANGED rounds_patients
    /\ RoundsUnchanged

\* lines 50-52 and 96-97: the list is written, the lock released and
\* save_patients returns; quick_add_patient then leaves its own with
\* block and returns the patient
SavePatientsWrite(r) ==
    /\ rounds_threads[r].pc = "L51"
    /\ rounds_patients' = rounds_threads[r].patients
    /\ rounds_lock' = 0
    /\ rounds_threads' = [rounds_threads EXCEPT ![r] = IdleRounds]
    /\ RoundsUnchanged

RoundsStep(r) ==
    \/ QuickAddCall(r)
    \/ QuickAddAcquire(r)
    \/ QuickAddLoad(r)
    \/ \E payload \in SavePayloads : SavePatientsCall(r, payload)
    \/ SavePatientsAcquire(r)
    \/ SavePatientsWrite(r)

NextRounds ==
    \/ \E r \in Requests : QuickAddCall(r)
    \/ \E r \in Requests : QuickAddAcquire(r)
    \/ \E r \in Requests : QuickAddLoad(r)
    \/ \E r \in Requests, payload \in SavePayloads : SavePatientsCall(r, payload)
    \/ \E r \in Requests : SavePatientsAcquire(r)
    \/ \E r \in Requests : SavePatientsWrite(r)

\* every thread that can take a step is scheduled in the end
SpecRounds ==
    Init /\ [][NextRounds]_vars /\ \A r \in Requests : WF_vars(RoundsStep(r))

\* C34: every call of quick_add_patient with a non-empty name returns
C34_QuickAddTerminates ==
    \A r \in Requests :
        (rounds_threads[r].op = "quick_add_patient")
            ~> (rounds_threads[r].op # "quick_add_patient")

(* ---- collapse_repetitions ---- *)

\* whisper-server.py lines 50-51: the defaults of the environment variables
REPEAT_NGRAM == 2

REPEAT_LIMIT == 6

Words == {"here", "on", "my"}

RECURSIVE Repeat(_, _)
\* phrase * times, as words
Repeat(phrase, times) ==
    IF times = 0 THEN << >> ELSE phrase \o Repeat(phrase, times - 1)

\* words[i:j] of Python, for 0 <= i <= j
Slice(words, i, j) ==
    SubSeq(words, i + 1, IF j <= Len(words) THEN j ELSE Len(words))

RECURSIVE EndOfRun(_, _, _)
\* lines 262-269: the position after the last consecutive copy of ngram
EndOfRun(words, ngram, pos) ==
    IF pos + REPEAT_NGRAM <= Len(words)
          /\ Slice(words, pos, pos + REPEAT_NGRAM) = ngram
    THEN EndOfRun(words, ngram, pos + REPEAT_NGRAM)
    ELSE pos

RECURSIVE CollapseFrom(_, _, _)
\* lines 251-281: the while loop from index i with output_words so far
CollapseFrom(words, i, output_words) ==
    IF i >= Len(words) THEN output_words
    ELSE IF i + REPEAT_NGRAM * 2 >= Len(words)
    THEN output_words \o Slice(words, i, Len(words))
    ELSE LET ngram == Slice(words, i, i + REPEAT_NGRAM)
             pos == EndOfRun(words, ngram, i + REPEAT_NGRAM)
             repetition_count == (pos - i) \div REPEAT_NGRAM
         IN  IF repetition_count > REPEAT_LIMIT
             THEN CollapseFrom(words, pos,
                               output_words \o Repeat(ngram, REPEAT_LIMIT))
             ELSE CollapseFrom(words, i + 1, Append(output_words, words[i + 1]))

\* lines 234-291, on the words of the text; the words of the result
collapse_repetitions(words) ==
    IF Len(words) < REPEAT_NGRAM * 2 THEN words
    ELSE CollapseFrom(words, 0, << >>)

\* one phrase of 1..MaxPhrase words, repeated more than REPEAT_LIMIT times
Texts ==
    [phrase : UNION {[1..n -> Words] : n \in 1..MaxPhrase},
     times : (REPEAT_LIMIT + 1)..MaxRepeats]

InitCollapse ==
    /\ clock = 0
    /\ files = [j \in JobIds |-> NoFile]
    /\ job_queue = << >>
    /\ worker = IdleWorker
    /\ handler = [h \in Handlers |-> IdleHandler]
    /\ nenq = 0
    /\ started = << >>
    /\ accepted = [j \in JobIds |-> "none"]
    /\ ProcInit
    /\ IoInit
    /\ GepaInit
    /\ VerInit
    /\ SweepInit
    /\ HistInit
    /\ IngestInit
    /\ RoundsInit
    /\ text \in Texts
    /\ collapsed = NotCollapsed
    /\ triples = NoTriples

\* whisper-server.py, transcribe_with_guards: the transcribed text is given
\* to collapse_repetitions
Collapse ==
    /\ ~collapsed.called
    /\ collapsed' = [called |-> TRUE,
                     words |-> collapse_repetitions(Repeat(text.phrase,
                                                           text.times))]
    /\ UNCHANGED <<text, triples, savers, recorded, watcher_queue, jobs_root,
                   watcher_out, rounds_lock, rounds_patients, rounds_threads,
                   jobvars, procvars, iovars, gepavars, vervars, sweepvars>>

SpecCollapse == InitCollapse /\ [][Collapse]_vars

\* C35: the result for a phrase repeated more than REPEAT_LIMIT times has
\* at most REPEAT_LIMIT * REPEAT_NGRAM words
C35_CollapsedToLimit ==
    collapsed.called => Len(collapsed.words) <= REPEAT_LIMIT * REPEAT_NGRAM

(* ---- the worker after a cancellation check ---- *)

\* the worker stands at one of the is_job_cancelled checks: lines 185, 200,
\* 274 and 339 before the phases, line 287 before a task of phase 2
AtCheck ==
    \/ worker.pc \in {"L185", "L200", "L274", "L339"}
    \/ worker.pc = "L287" /\ worker.i < worker.job_data.ntasks

\* C36: a worker step at a check where is_job_cancelled answers true goes
\* to the return without entering the except branch, writing the record
\* or running a task; and the step after it leaves process_overnight_job
\* with the worker idle at the queue, again without a write
C36_CancelledWorkerReturns ==
    [][worker' # worker =>
          /\ AtCheck /\ is_job_cancelled(wid) =>
                (/\ worker'.pc = "ret"
                 /\ ~worker'.raised
                 /\ worker'.i = worker.i
                 /\ worker'.succeeded = worker.succeeded
                 /\ files' = files)
          /\ worker.pc = "ret" =>
                (/\ worker' = IdleWorker
                 /\ files' = files
                 /\ job_queue' = job_queue)]_vars

\* the worker returns from the check before the second of two tasks
C36_Witness ==
    /\ worker.pc = "ret"
    /\ ~worker.raised
    /\ worker.i > 0
    /\ worker.i < worker.job_data.ntasks
    /\ files[wid].exists
    /\ is_job_cancelled(wid)

\* C37: when process_overnight_job returns, the record of its job, if the
\* file exists, has status DONE or ERROR
C37_ReturnedJobIsTerminal ==
    [][worker.pc = "ret" /\ worker' = IdleWorker =>
          (files[wid].exists => files[wid].status \in {"DONE", "ERROR"})]_vars

(* ---- the sweep of temporary files and the atomic writes ---- *)

\* the writers and readers of SpecIo with the requests of cleanup_endpoint
NextTempSweep ==
    \/ \E path \in Paths : OpenForWrite(path)
    \/ \E path \in Paths : DumpFlush(path)
    \/ \E path \in Paths : CloseFile(path)
    \/ \E path \in Paths : ReadFile(path)
    \/ cleanup_endpoint

SpecTempSweep == Init /\ [][NextTempSweep]_vars

\* C38: the temporary file of an atomic write in progress is never
\* removed, and when the write ends its target holds the new content
C38_SweepSparesWritesInProgress ==
    [][\A path \in {q \in Paths : UsesAtomicWrite(q)} :
          /\ writer[path].pc # "idle" /\ writer'[path] = writer[path]
                => (temp[path].kind # "absent" => temp'[path].kind # "absent")
          /\ writer[path].pc # "idle" /\ writer'[path].pc = "idle"
                => disk'[path] = Complete(writer[path].v)]_vars

(* ---- the ids of the candidates ---- *)

\* the triples that _save_candidate hands to _generate_candidate_id
Triples ==
    [agent_type : AgentTypes, original_prompt : Prompts,
     optimized_prompt : Prompts]

\* MaxSaves different triples, none of them saved yet
InitIds ==
    /\ clock = 0
    /\ files = [j \in JobIds |-> NoFile]
    /\ job_queue = << >>
    /\ worker = IdleWorker
    /\ handler = [h \in Handlers |-> IdleHandler]
    /\ nenq = 0
    /\ started = << >>
    /\ accepted = [j \in JobIds |-> "none"]
    /\ ProcInit
    /\ IoInit
    /\ GepaInit
    /\ VerInit
    /\ SweepInit
    /\ HistInit
    /\ IngestInit
    /\ RoundsInit
    /\ text = NoText
    /\ collapsed = NotCollapsed
    /\ triples \in {tr \in [1..MaxSaves -> [triple : Triples, saved : {FALSE}]] :
                       \A i, j \in 1..MaxSaves :
                           i # j => tr[i].triple # tr[j].triple}

\* optim_gepa.py lines 1068-1091 for the next triple: _save_candidate
\* writes the file named by the id of the triple
SaveTriple(k) ==
    /\ k \in DOMAIN triples
    /\ ~triples[k].saved
    /\ \A i \in 1..(k - 1) : triples[i].saved
    /\ \E score \in Scores :
          LET candidate_data ==
                  triples[k].triple @@
                  [baseline_metrics |-> [avg_score |-> BaselineScore],
                   candidate_metrics |-> [avg_score |-> score],
                   improvement |-> score - BaselineScore]
          IN  candidates' = _save_candidate(candidates, candidate_data,
                                            timestamp).store
    /\ triples' = [triples EXCEPT ![k].saved = TRUE]
    /\ UNCHANGED <<timestamp, prompt_versions, current_md, preview_out,
                   apply_out, optimization_history, nprev, ticks, text,
                   collapsed, savers, recorded, watcher_queue, jobs_root,
                   watcher_out, rounds_lock, rounds_patients, rounds_threads,
                   jobvars, procvars, iovars, vervars, sweepvars>>

NextIds == \E k \in 1..MaxSaves : SaveTriple(k)

SpecIds == InitIds /\ [][NextIds]_vars

\* the candidate files that hold the triple
FilesOf(triple) ==
    {c \in candidates : /\ c.agent_type = triple.agent_type
                        /\ c.original_prompt = triple.original_prompt
                        /\ c.optimized_prompt = triple.optimized_prompt}

\* C39: different triples give different content strings to the hash, so
\* every saved triple keeps a candidate file of its own
C39_DistinctTriplesDistinctIds ==
    \A i, j \in DOMAIN triples :
        i # j /\ triples[i].saved /\ triples[j].saved =>
            /\ _generate_candidate_id(triples[i].triple.original_prompt,
                                      triples[i].triple.optimized_prompt,
                                      triples[i].triple.agent_type)
               # _generate_candidate_id(triples[j].triple.original_prompt,
                                        triples[j].triple.optimized_prompt,
                                        triples[j].triple.agent_type)
            /\ FilesOf(triples[i].triple) # {}
            /\ FilesOf(triples[j].triple) # {}

====
